---- MODULE Spec2Model ----
(***************************************************************************)
(* ParkingDirekt: the feature-flag manager (src/lib/featureFlags.ts with   *)
(* its admin API in src/deploy.sh) and the rate limiter                    *)
(* (src/lib/rateLimiting.ts).                                              *)
(*                                                                         *)
(* Strings that the code concatenates, splits or hashes are sequences of   *)
(* tokens: "a_b" is <<"a", "_", "b">>, so that template strings are \o,    *)
(* startsWith is a prefix test and split('@') cuts at the "@" token.       *)
(* Property names and enum tags (rule types, operators) are plain strings. *)
(* Time is counted in minutes for the flag cache.                          *)
(***************************************************************************)
EXTENDS Integers, Sequences, FiniteSets, TLC

VARIABLES
    featureFlag,   \* the featureFlag table: flag key -> row
    cache,         \* FeatureFlagManager.cache: set of [key, enabled, timestamp]
    now,           \* Date.now(), in minutes
    calls,         \* the isEnabled activations in flight
    returned,      \* the isEnabled call that returned last, with its result
    admin,         \* the administrative operation in flight or just returned
    rolledBack,    \* environment -> an emergency rollback completed, nothing enabled since
    nCalls,        \* isEnabled calls started so far
    nWrites,       \* administrative operations started so far
    evalPrev,      \* uncached evaluation: the evaluation before the last one
    evalCur,       \* uncached evaluation: the last (flag, context) and its outcome
    redis,         \* RateLimitManager.redis: "client" or "null"
    systemConfig,  \* the stored rate-limit settings
    zsets,         \* the sorted sets of the external store: key -> set of [score, member]
    expiry,        \* the external store's expiry of each key, in seconds
    nowMs,         \* Date.now() of the rate limiter, in milliseconds
    history,       \* the decisions taken so far, in order
    last,          \* the last rate-limit call with its outcome
    apiRateLimitLog \* number of violation rows written

flagVars == <<featureFlag, cache, now, calls, returned, admin, rolledBack, nCalls, nWrites>>
evalVars == <<evalPrev, evalCur>>
rateVars == <<redis, systemConfig, zsets, expiry, nowMs, history, last, apiRateLimitLog>>

VARIABLES
    configRows,    \* the systemConfig table: <<category, key, environment>> -> row
    configCache,   \* ConfigManager.cache: cache key -> entry
    configNow,     \* Date.now() of the configuration manager, in minutes
    configCall,    \* the getSystemConfig activation in flight
    configReturned, \* the read that returned last, with its result
    configWrite,   \* the update in flight or just returned
    configSettled, \* <<key, environment>> -> the value of the last completed updateConfig
    nConfigOps     \* configuration operations started so far

configVars == <<configRows, configCache, configNow, configCall, configReturned,
                configWrite, configSettled, nConfigOps>>

VARIABLES
    providers,     \* EmailDeliveryManager.providers: the names in registration order
    defaultProvider,
    notificationRetryLimit, \* the setting that shouldRetry reads
    retryQueue,    \* EmailDeliveryManager.retryQueue
    mailNow,       \* Date.now() of email delivery, in seconds
    timerDue,      \* the retry timer is due to fire
    mailCalls,     \* the sendEmail activations in flight
    emailDeliveryLog, \* the emailDeliveryLog table, in order of creation
    handed,        \* message -> times it was handed to a provider
    delivered,     \* message -> times a provider accepted it
    made,          \* message -> the calls made for it by callers, in order
    mailReturned   \* the call that returned last to a caller, with its result

mailVars == <<providers, defaultProvider, notificationRetryLimit, retryQueue, mailNow,
              timerDue, mailCalls, emailDeliveryLog, handed, delivered, made,
              mailReturned>>

VARIABLES
    bookings,      \* the booking table, in order of creation
    notifications, \* the notification table: set of <<userId, title>>
    bookNow,       \* Date.now() of the booking routes, in milliseconds
    posts,         \* the POST /api/bookings requests in flight
    verify,        \* the POST /api/verify-qr request in flight
    bookResponse,  \* the response sent last by one of these routes
    nBookOps       \* requests received so far

bookVars == <<bookings, notifications, bookNow, posts, verify, bookResponse,
              nBookOps>>

VARIABLES
    reviews,       \* the review table, in order of creation
    reviewPosts    \* the POST /api/reviews requests in flight

reviewVars == <<reviews, reviewPosts>>

\* the subsystems modelled after the flags, the evaluation and the rate limiter
otherVars == <<configVars, mailVars, bookVars, reviewVars>>
notFlagVars == <<evalVars, rateVars, otherVars>>
vars == <<flagVars, evalVars, rateVars, otherVars>>
notConfigVars == <<flagVars, evalVars, rateVars, mailVars, bookVars, reviewVars>>
notMailVars == <<flagVars, evalVars, rateVars, configVars, bookVars, reviewVars>>
notBookVars == <<flagVars, evalVars, rateVars, configVars, mailVars, reviewVars>>
notReviewVars == <<flagVars, evalVars, rateVars, configVars, mailVars>>

----------------------------------------------------------------------------
(* Strings *)

Range(s) == { s[i] : i \in DOMAIN s }

startsWith(s, prefix) ==
    /\ Len(prefix) <= Len(s)
    /\ SubSeq(s, 1, Len(prefix)) = prefix

\* String.prototype.includes: needle occurs as a contiguous run of s
includes(s, needle) ==
    \E i \in 0..(Len(s) - Len(needle)) : SubSeq(s, i + 1, i + Len(needle)) = needle

\* the undefined value of a context field that is not there
Undefined == << "<undefined>" >>

\* s.split('@')[1]: the piece between the first and the second "@"
splitAt1(s) ==
    LET ats == { i \in DOMAIN s : s[i] = "@" }
    IN  IF ats = {} THEN Undefined
        ELSE LET first == CHOOSE i \in ats : \A j \in ats : i <= j
                 later == { i \in ats : i > first }
                 stop  == IF later = {} THEN Len(s) + 1
                          ELSE CHOOSE i \in later : \A j \in later : i <= j
             IN  SubSeq(s, first + 1, stop - 1)

----------------------------------------------------------------------------
(* Rule trees and contexts.  A rule is a record that has a property exactly *)
(* when the JSON object has it; a value is [str |-> s] or [arr |-> <<..>>]. *)

Has(r, p) == p \in DOMAIN r

IsArray(v) == "arr" \in DOMAIN v

\* rule.operator, "undefined" when the property is missing
operatorOf(rule) == IF Has(rule, "operator") THEN rule.operator ELSE "undefined"

\* context[field]
contextValue(context, field) ==
    IF Has(context, field) THEN context[field] ELSE Undefined

\* actual || ''
orEmpty(actual) == IF actual = Undefined THEN << >> ELSE actual

\* String(expected): an array is joined with ","
RECURSIVE joinComma(_)
joinComma(arr) ==
    IF arr = << >> THEN << >>
    ELSE IF Len(arr) = 1 THEN arr[1]
    ELSE arr[1] \o <<",">> \o joinComma(Tail(arr))

stringOf(expected) == IF IsArray(expected) THEN joinComma(expected.arr) ELSE expected.str

\* actual === expected
strictEquals(actual, expected) == ~IsArray(expected) /\ expected.str = actual

compareValues(actual, expected, operator) ==
    CASE operator = "equals"     -> strictEquals(actual, expected)
      [] operator = "not_equals" -> ~strictEquals(actual, expected)
      [] operator = "in"         -> IsArray(expected) /\ actual \in Range(expected.arr)
      [] operator = "not_in"     -> IsArray(expected) /\ actual \notin Range(expected.arr)
      [] operator = "contains"   -> includes(orEmpty(actual), stringOf(expected))
      [] OTHER                   -> strictEquals(actual, expected)

evaluateCondition(rule, context) ==
    LET value == contextValue(context, rule.field)
        operator == operatorOf(rule)
    IN  CASE rule.type \in {"user_id", "role"} ->
                compareValues(value, rule.value, operator)
          [] rule.type = "email_domain" ->
                IF value = Undefined \/ value = << >> THEN FALSE
                ELSE compareValues(splitAt1(value), rule.value, operator)
          [] rule.type = "custom" ->
                IF operator = "equals" THEN strictEquals(value, rule.value)
                ELSE IF operator = "contains"
                     THEN includes(orEmpty(value), stringOf(rule.value))
                     ELSE FALSE
          [] OTHER -> TRUE

RECURSIVE evaluateRuleOrAsAnd(_, _)
\* evaluateRule with results.every for results.some
evaluateRuleOrAsAnd(rule, context) ==
    IF Has(rule, "rules")
      THEN \A i \in DOMAIN rule.rules : evaluateRuleOrAsAnd(rule.rules[i], context)
      ELSE evaluateCondition(rule, context)

RECURSIVE evaluateRule(_, _)
evaluateRule(rule, context) ==
    IF Has(rule, "scalar") THEN TRUE          \* !rule || typeof rule !== 'object'
    ELSE
      LET operator == IF Has(rule, "operator") THEN rule.operator ELSE "and"
          results == IF Has(rule, "rules")
                     THEN [i \in DOMAIN rule.rules |-> evaluateRule(rule.rules[i], context)]
                     ELSE << >>
      IN  IF Has(rule, "rules") /\ operator = "and"
            THEN \A i \in DOMAIN results : results[i]
          ELSE IF Has(rule, "rules") /\ operator = "or"
            THEN \E i \in DOMAIN results : results[i]
          ELSE IF Has(rule, "type") /\ Has(rule, "field") /\ Has(rule, "value")
            THEN evaluateCondition(rule, context)
          ELSE TRUE

----------------------------------------------------------------------------
(* Rollout buckets *)

\* crypto.createHash('md5').update(identifier).digest('hex').substring(0, 8),
\* as hex digits, for the identifiers of the model
md5hex8(identifier) ==
    CASE identifier = <<"x">>                 -> <<9, 13, 13, 4, 14, 4, 6, 1>>
      [] identifier = <<"b", "_", "x">>       -> <<15, 8, 2, 2, 8, 14, 3, 4>>
      [] identifier = <<"a", "@", "x.com">>   -> <<7, 4, 3, 1, 7, 3, 7, 8>>
      [] identifier = <<"b", "@", "y.org">>   -> <<0, 15, 14, 1, 14, 9, 15, 9>>
      [] identifier = <<"anonymous">>         -> <<2, 9, 4, 13, 14, 3, 5, 5>>

\* parseInt of four hex digits
parseHex4(d, from) == ((d[from] * 16 + d[from + 1]) * 16 + d[from + 2]) * 16 + d[from + 3]

\* parseInt(hash.substring(0, 8), 16): a number below 2^32, kept as two
\* 16-bit halves (hi * 65536 + lo)
hashUserForRollout(identifier) ==
    LET d == md5hex8(identifier)
    IN  [hi |-> parseHex4(d, 1), lo |-> parseHex4(d, 5)]

\* hash % 100 for hash = hi * 65536 + lo (65536 % 100 = 36)
mod100(hash) == (((hash.hi % 100) * 36) + (hash.lo % 100)) % 100

\* context.userId || context.email || 'anonymous'
rolloutIdentifierEmailFirst(context) ==
    IF orEmpty(contextValue(context, "email")) # << >> THEN context.email
    ELSE IF orEmpty(contextValue(context, "userId")) # << >> THEN context.userId
    ELSE <<"anonymous">>

\* context.userId || context.email || 'anonymous'
rolloutIdentifier(context) ==
    IF orEmpty(contextValue(context, "userId")) # << >> THEN context.userId
    ELSE IF orEmpty(contextValue(context, "email")) # << >> THEN context.email
    ELSE <<"anonymous">>

\* (hash % 100) + 1
userPercentage(context) == mod100(hashUserForRollout(rolloutIdentifier(context))) + 1

----------------------------------------------------------------------------
(* Stored conditions: the conditions column is null, a string that is not  *)
(* JSON, or the JSON text of a rule.                                       *)

NoConditions == [kind |-> "null"]
Malformed    == [kind |-> "malformed"]

\* JSON.stringify(conditions)
stringify(rule) == [kind |-> "json", rule |-> rule]

\* flag.conditions is truthy
hasConditions(flag) == flag.conditions.kind # "null"

evaluateConditions(flag, context) ==
    IF flag.rolloutPercentage < 100 /\ userPercentage(context) > flag.rolloutPercentage
      THEN FALSE
    ELSE IF ~hasConditions(flag) THEN TRUE
    ELSE IF flag.conditions.kind = "malformed" THEN TRUE    \* JSON.parse throws
    ELSE evaluateRule(flag.conditions.rule, context)

----------------------------------------------------------------------------
(* Bounds and input sets of the flag model *)

MaxTime     == 2    \* the clock stops here
MaxCalls    == 2    \* isEnabled calls started in one behaviour
MaxWrites   == 1    \* administrative operations started in one behaviour
MaxInFlight == 2    \* isEnabled calls in flight at once

CACHE_TTL == 2      \* minutes

Production == <<"production">>
Staging    == <<"staging">>
Environments == {Production, Staging}

KeyA  == <<"a">>
KeyAB == <<"a", "_", "b">>
FlagKeys == {KeyA, KeyAB}

Admin == <<"ADMIN">>
User  == <<"USER">>

\* {type: "role", field: "role", operator: "in", value: ["ADMIN"]}
AdminsOnly ==
    [type |-> "role", field |-> "role", operator |-> "in", value |-> [arr |-> <<Admin>>]]

\* the JavaScript null passed as conditions
JSNull == [scalar |-> "null"]

ConditionInputs == {AdminsOnly}
CreateConditions == {JSNull, AdminsOnly}
RolloutInputs == {-1, 0, 50, 150}
CreateRollouts == {100, 150}

\* the isEnabled calls made: (flag key, context, environment)
CallInputs ==
    { <<KeyA, [userId |-> <<"x">>, role |-> Admin], Production>>,
      <<KeyA, [userId |-> <<"b", "_", "x">>, role |-> Admin], Production>>,
      <<KeyAB, [userId |-> <<"x">>, role |-> Admin], Production>>,
      <<KeyA, [email |-> <<"a", "@", "x.com">>, role |-> User], Production>>,
      <<KeyA, [email |-> <<"b", "@", "y.org">>, role |-> User], Production>>,
      <<KeyA, [userId |-> <<"x">>, role |-> Admin], Staging>> }

Null == [null |-> TRUE]

Row(enabled, rolloutPercentage, conditions, environment) ==
    [enabled |-> enabled, rolloutPercentage |-> rolloutPercentage,
     conditions |-> conditions, environment |-> environment]

Slots == 1..MaxInFlight

----------------------------------------------------------------------------
(* The cache *)

getCacheKey(flagKey, context, environment) ==
    LET userId == orEmpty(contextValue(context, "userId"))
        role   == orEmpty(contextValue(context, "role"))
    IN  <<"flag", "_">> \o flagKey \o <<"_">>
          \o (IF userId # << >> THEN userId ELSE <<"no-user">>) \o <<"_">>
          \o (IF role # << >> THEN role ELSE <<"no-role">>) \o <<"_">>
          \o environment

\* this.cache.set(cacheKey, { flag: { enabled }, timestamp: Date.now() })
cacheSet(c, cacheKey, enabled, timestamp) ==
    { e \in c : e.key # cacheKey }
      \cup { [key |-> cacheKey, enabled |-> enabled, timestamp |-> timestamp] }

\* cached && Date.now() - cached.timestamp < this.CACHE_TTL
cacheHit(c, cacheKey, t) ==
    { e \in c : e.key = cacheKey /\ t - e.timestamp < CACHE_TTL }

invalidateFlagCache(c, flagKey) ==
    { e \in c : ~startsWith(e.key, <<"flag", "_">> \o flagKey \o <<"_">>) }

----------------------------------------------------------------------------
(* The rate limiter: configuration and keys *)

MaxRequests == 3      \* rate-limit calls made in one behaviour
MaxNowMs    == 2000   \* the rate limiter's clock stops here

defaultConfig ==
    [enabled |-> TRUE, maxRequests |-> 60, windowMs |-> 60 * 1000, mode |-> "per_user"]

\* { ...base, ...customConfig }
merge(base, customConfig) ==
    [f \in DOMAIN base |-> IF f \in DOMAIN customConfig THEN customConfig[f] ELSE base[f]]

NoCustom == [f \in {} |-> 0]

CustomConfigs == { NoCustom, [maxRequests |-> 1, windowMs |-> 1000] }

StoredConfigs ==
    { [enableRateLimiting |-> TRUE,  maxRequestsPerMinute |-> 2],
      [enableRateLimiting |-> TRUE,  maxRequestsPerMinute |-> 0],
      [enableRateLimiting |-> FALSE, maxRequestsPerMinute |-> 2] }

\* getConfigValue of the three settings; when the configuration cannot be read,
\* getSystemConfig falls back to the hard-coded defaults
configValues(readOk) ==
    IF readOk THEN systemConfig
              ELSE [enableRateLimiting |-> TRUE, maxRequestsPerMinute |-> 60]

getConfig(customConfig, readOk) ==
    LET values == configValues(readOk)
    IN  merge([enabled |-> values.enableRateLimiting,
               maxRequests |-> IF values.maxRequestsPerMinute = 0
                                 THEN 60 ELSE values.maxRequestsPerMinute,
               windowMs |-> 60 * 1000,
               mode |-> "per_user"],
              customConfig)

Identifiers == { <<"u1">> }
Endpoints == { Undefined, <<"/api">> }

\* `rate_limit:${identifier}${endpoint ? `:${endpoint}` : ''}`
rateKey(identifier, endpoint) ==
    <<"rate_limit:">> \o identifier
       \o (IF orEmpty(endpoint) # << >> THEN <<":">> \o endpoint ELSE << >>)

RateKeys == { rateKey(i, e) : i \in Identifiers, e \in Endpoints }

\* Math.ceil(a / b)
ceilDiv(a, b) == (a + b - 1) \div b

----------------------------------------------------------------------------
(* isEnabled *)

IdleCall == [pc |-> "idle"]

InFlight(c) == c.pc \in {"query", "fetched", "evaluated"}

\* lines 59-64: the value computed from a fetched row of the right environment
evaluateFlag(flag, context) ==
    IF flag.enabled /\ (flag.rolloutPercentage < 100 \/ hasConditions(flag))
      THEN evaluateConditions(flag, context)
      ELSE flag.enabled

\* the call in slot s returns: its record, with the result, is what the caller gets
return(s, result) ==
    /\ returned' = [calls[s] EXCEPT !.pc = "done", !.flag = Null, !.isEnabled = result]
    /\ calls' = [calls EXCEPT ![s] = IdleCall]

\* the lowest free slot takes the next call
FreeSlot(s) ==
    /\ ~InFlight(calls[s])
    /\ \A t \in Slots : t < s => InFlight(calls[t])

\* lines 33-40: the cache is consulted; on a miss the query is issued
isEnabledStart(s, flagKey, context, environment) ==
    LET cacheKey == getCacheKey(flagKey, context, environment)
        cached   == cacheHit(cache, cacheKey, now)
        call     == [pc |-> "query", flagKey |-> flagKey, context |-> context,
                     environment |-> environment, flag |-> Null, isEnabled |-> FALSE,
                     fromCache |-> FALSE, threw |-> FALSE,
                     start |-> featureFlag[flagKey], stable |-> TRUE,
                     enabledSeen |-> (featureFlag[flagKey] # Null
                                      /\ featureFlag[flagKey].enabled),
                     afterRollback |-> rolledBack[environment]]
    IN  /\ FreeSlot(s)
        /\ nCalls < MaxCalls
        /\ nCalls' = nCalls + 1
        /\ IF cached # {}
             THEN /\ returned' = [call EXCEPT !.pc = "done", !.fromCache = TRUE,
                                     !.isEnabled = (CHOOSE e \in cached : TRUE).enabled]
                  /\ UNCHANGED calls
             ELSE /\ calls' = [calls EXCEPT ![s] = call]
                  /\ UNCHANGED returned
        /\ UNCHANGED <<featureFlag, cache, now, admin, rolledBack, nWrites, notFlagVars>>

\* lines 43-45 and 71-75: the database answers the query, or fails and the
\* catch block returns false
isEnabledFetch(s) ==
    /\ calls[s].pc = "query"
    /\ \E ok \in BOOLEAN :
         IF ok THEN /\ calls' = [calls EXCEPT ![s].pc = "fetched",
                                              ![s].flag = featureFlag[calls[s].flagKey]]
                    /\ UNCHANGED returned
               ELSE /\ returned' = [calls[s] EXCEPT !.pc = "done", !.threw = TRUE]
                    /\ calls' = [calls EXCEPT ![s] = IdleCall]
    /\ UNCHANGED <<featureFlag, cache, now, admin, rolledBack, nCalls, nWrites, notFlagVars>>

\* lines 47-64: the continuation after findUnique
isEnabledResume(s) ==
    LET call == calls[s]
        cacheKey == getCacheKey(call.flagKey, call.context, call.environment)
    IN  /\ call.pc = "fetched"
        /\ IF call.flag = Null \/ call.flag.environment # call.environment
             THEN /\ cache' = cacheSet(cache, cacheKey, FALSE, now)
                  /\ return(s, FALSE)
             ELSE IF call.flag.enabled
                     /\ (call.flag.rolloutPercentage < 100 \/ hasConditions(call.flag))
             THEN /\ calls' = [calls EXCEPT ![s].pc = "evaluated",
                                 ![s].isEnabled = evaluateFlag(call.flag, call.context)]
                  /\ UNCHANGED <<cache, returned>>
             ELSE /\ cache' = cacheSet(cache, cacheKey, call.flag.enabled, now)
                  /\ return(s, call.flag.enabled)
        /\ UNCHANGED <<featureFlag, now, admin, rolledBack, nCalls, nWrites, notFlagVars>>

\* lines 66-69: the continuation after evaluateConditions
isEnabledFinish(s) ==
    LET call == calls[s]
        cacheKey == getCacheKey(call.flagKey, call.context, call.environment)
    IN  /\ call.pc = "evaluated"
        /\ cache' = cacheSet(cache, cacheKey, call.isEnabled, now)
        /\ return(s, call.isEnabled)
        /\ UNCHANGED <<featureFlag, now, admin, rolledBack, nCalls, nWrites, notFlagVars>>

----------------------------------------------------------------------------
(* Administrative operations.  The first step validates and writes the     *)
(* table; the continuation after the await touches the cache.              *)

AdminFree == admin.pc \in {"idle", "done"} /\ nWrites < MaxWrites

\* a write turns on a flag of environment e
enablingIn(table, e) ==
    \E k \in FlagKeys :
        /\ table[k] # Null /\ table[k].enabled /\ table[k].environment = e
        /\ (featureFlag[k] = Null \/ ~featureFlag[k].enabled)

\* what the calls in flight and the rollback marks see of a write
observe(table) ==
    /\ calls' = [s \in Slots |->
          IF InFlight(calls[s])
            THEN [calls[s] EXCEPT
                    !.stable = @ /\ table[calls[s].flagKey] = featureFlag[calls[s].flagKey],
                    !.enabledSeen = @ \/ (table[calls[s].flagKey] # Null
                                          /\ table[calls[s].flagKey].enabled),
                    !.afterRollback = @ /\ ~enablingIn(table, calls[s].environment)]
            ELSE calls[s]]
    /\ rolledBack' = [e \in Environments |-> rolledBack[e] /\ ~enablingIn(table, e)]

written(op, flagKey, environment, table) ==
    /\ featureFlag' = table
    /\ observe(table)
    /\ admin' = [pc |-> "written", op |-> op, flagKey |-> flagKey,
                 environment |-> environment]

\* the operation ends without a write: a thrown error or an error response
refused(op, flagKey, environment, error) ==
    /\ admin' = [pc |-> "done", op |-> op, error |-> error]
    /\ UNCHANGED <<featureFlag, calls, rolledBack>>

toggleFlag(flagKey, enabled) ==
    /\ AdminFree
    /\ nWrites' = nWrites + 1
    /\ IF featureFlag[flagKey] = Null
         THEN refused("toggle", flagKey, Production, "db")
         ELSE written("toggle", flagKey, Production,
                      [featureFlag EXCEPT ![flagKey].enabled = enabled])
    /\ UNCHANGED <<cache, now, returned, nCalls, notFlagVars>>

updateRolloutPercentage(flagKey, percentage) ==
    /\ AdminFree
    /\ nWrites' = nWrites + 1
    /\ IF percentage < 0 \/ percentage > 100
         THEN refused("rollout", flagKey, Production, "validation")
         ELSE IF featureFlag[flagKey] = Null
         THEN refused("rollout", flagKey, Production, "db")
         ELSE written("rollout", flagKey, Production,
                      [featureFlag EXCEPT ![flagKey].rolloutPercentage = percentage])
    /\ UNCHANGED <<cache, now, returned, nCalls, notFlagVars>>

updateConditions(flagKey, conditions) ==
    /\ AdminFree
    /\ nWrites' = nWrites + 1
    /\ IF featureFlag[flagKey] = Null
         THEN refused("conditions", flagKey, Production, "db")
         ELSE written("conditions", flagKey, Production,
                      [featureFlag EXCEPT ![flagKey].conditions = stringify(conditions)])
    /\ UNCHANGED <<cache, now, returned, nCalls, notFlagVars>>

createFlag(flagKey, enabled, rolloutPercentage, conditions, environment) ==
    /\ AdminFree
    /\ nWrites' = nWrites + 1
    /\ IF featureFlag[flagKey] # Null
         THEN refused("create", flagKey, environment, "db")
         ELSE written("create", flagKey, environment,
                      [featureFlag EXCEPT ![flagKey] =
                          Row(enabled, rolloutPercentage,
                              IF conditions = JSNull THEN NoConditions
                                                     ELSE stringify(conditions),
                              environment)])
    /\ UNCHANGED <<cache, now, returned, nCalls, notFlagVars>>

emergencyRollback(environment) ==
    /\ AdminFree
    /\ nWrites' = nWrites + 1
    /\ written("rollback", << >>, environment,
               [k \in FlagKeys |->
                   IF featureFlag[k] # Null /\ featureFlag[k].environment = environment
                     THEN [featureFlag[k] EXCEPT !.enabled = FALSE]
                     ELSE featureFlag[k]])
    /\ UNCHANGED <<cache, now, returned, nCalls, notFlagVars>>

\* the continuation after the awaited write
adminReturn ==
    /\ admin.pc = "written"
    /\ admin' = [pc |-> "done", op |-> admin.op, error |-> "none"]
    /\ cache' = IF admin.op \in {"toggle", "rollout", "conditions"}
                  THEN invalidateFlagCache(cache, admin.flagKey)
                ELSE IF admin.op = "rollback" THEN {}
                ELSE cache
    /\ rolledBack' = IF admin.op = "rollback"
                       THEN [rolledBack EXCEPT ![admin.environment] = TRUE]
                       ELSE rolledBack
    /\ UNCHANGED <<featureFlag, now, calls, returned, nCalls, nWrites, notFlagVars>>

\* the admin API: ?action=rollout
handleRollout(flagKey, percentage, authenticated) ==
    IF percentage < 0 \/ percentage > 100
      THEN /\ AdminFree
           /\ nWrites' = nWrites + 1
           /\ refused("rollout", flagKey, Production, "400")
           /\ UNCHANGED <<cache, now, returned, nCalls, notFlagVars>>
    ELSE IF ~authenticated
      THEN /\ AdminFree
           /\ nWrites' = nWrites + 1
           /\ refused("rollout", flagKey, Production, "401")
           /\ UNCHANGED <<cache, now, returned, nCalls, notFlagVars>>
    ELSE updateRolloutPercentage(flagKey, percentage)

\* the admin API: ?action=create
handleCreate(flagKey, enabled, rolloutPercentage, conditions, authenticated) ==
    IF ~authenticated
      THEN /\ AdminFree
           /\ nWrites' = nWrites + 1
           /\ refused("create", flagKey, Production, "401")
           /\ UNCHANGED <<cache, now, returned, nCalls, notFlagVars>>
    ELSE createFlag(flagKey, enabled, rolloutPercentage, conditions, Production)

\* the admin API: ?action=emergency-rollback
handleEmergencyRollback(environment, authenticated) ==
    IF ~authenticated
      THEN /\ AdminFree
           /\ nWrites' = nWrites + 1
           /\ refused("rollback", << >>, environment, "401")
           /\ UNCHANGED <<cache, now, returned, nCalls, notFlagVars>>
    ELSE emergencyRollback(environment)

Tick ==
    /\ now < MaxTime
    /\ now' = now + 1
    /\ UNCHANGED <<featureFlag, cache, calls, returned, admin, rolledBack, nCalls, nWrites,
                   notFlagVars>>

----------------------------------------------------------------------------
(* The configuration manager (ConfigManager, src/unnamed/part_015).  A JS   *)
(* value is [num |-> n], [bool |-> b] or [str |-> s] with s a sequence of   *)
(* tokens; a stored value is the token sequence of its string.  Time is     *)
(* counted in minutes.                                                      *)

MaxConfigOps == 3     \* configuration operations started in one behaviour

ConfigManager_CACHE_TTL == 5     \* 5 * 60 * 1000 ms
DEFAULT_ENVIRONMENT == "production"
ConfigEnvironments == { DEFAULT_ENVIRONMENT, "staging" }

Num(n) == [num |-> n]
Bool(b) == [bool |-> b]
Str(s) == [str |-> s]
NaN == [nan |-> TRUE]
JSNullValue == [null |-> TRUE]

\* the eight bullets that stand for a secret
Mask == Str(<<"<bullets>">>)

\* the decimal numerals of the numbers in use
Numerals == [n \in {2, 5, 42, 60} |->
                CASE n = 2 -> "2" [] n = 5 -> "5" [] n = 42 -> "42" [] OTHER -> "60"]

\* String(value)
StringOfValue(value) ==
    IF "num" \in DOMAIN value THEN << Numerals[value.num] >>
    ELSE IF "bool" \in DOMAIN value THEN (IF value.bool THEN <<"true">> ELSE <<"false">>)
    ELSE value.str

\* JSON.stringify(value): a string is quoted
JSONstringify(value) ==
    IF "str" \in DOMAIN value THEN <<"\"">> \o value.str \o <<"\"">>
    ELSE StringOfValue(value)

IsNumeral(stored) == Len(stored) = 1 /\ \E n \in DOMAIN Numerals : Numerals[n] = stored[1]

\* parseFloat(stored)
parseFloat(stored) ==
    IF IsNumeral(stored)
      THEN Num(CHOOSE n \in DOMAIN Numerals : Numerals[n] = stored[1])
      ELSE NaN

\* JSON.parse(stored) succeeds on a numeral, true, false and a quoted string
JSONparses(stored) ==
    \/ IsNumeral(stored)
    \/ stored \in { <<"true">>, <<"false">> }
    \/ (Len(stored) >= 2 /\ stored[1] = "\"" /\ stored[Len(stored)] = "\""
          /\ \A i \in 2..(Len(stored) - 1) : stored[i] # "\"")

JSONparse(stored) ==
    IF IsNumeral(stored) THEN parseFloat(stored)
    ELSE IF stored \in { <<"true">>, <<"false">> } THEN Bool(stored = <<"true">>)
    ELSE Str(SubSeq(stored, 2, Len(stored) - 1))

\* updateConfig, lines 145-158: the string stored for a value of a type
stringValue(value, type) ==
    IF type = "json" THEN JSONstringify(value) ELSE StringOfValue(value)

\* getSystemConfig, lines 44-69: the value returned for a row
typedValue(config) ==
    CASE config.type = "number"  -> parseFloat(config.value)
      [] config.type = "boolean" -> Bool(config.value = <<"true">>)
      [] config.type = "json"    -> IF JSONparses(config.value)
                                      THEN JSONparse(config.value)
                                      ELSE Str(config.value)
      [] OTHER                   -> IF config.isSecret THEN Mask ELSE Str(config.value)

NoRow == [absent |-> TRUE]
NoCategory == "<undefined>"

ConfigRow(value, type, category, isSecret) ==
    [value |-> value, type |-> type, category |-> category, isSecret |-> isSecret]

\* the updates the callers make: key, value, category, type, isSecret
Update(key, value, category, type, isSecret) ==
    [key |-> key, value |-> value, category |-> category, type |-> type,
     isSecret |-> isSecret]

UpdateInputs ==
    { Update("maxRequestsPerMinute", Num(2), "api", "number", FALSE),
      Update("maxRequestsPerMinute", Num(5), "api", "number", FALSE),
      Update("apiToken", Str(<<"s3cret">>), "api", "string", TRUE),
      Update("apiToken", Num(42), "api", "number", TRUE),
      Update("apiToken", Str(<<"s3cret">>), "api", "json", TRUE),
      Update("supportEmail", Str(<<"help@x.com">>), "email", "string", FALSE) }

\* the environments written to
WriteEnvironments == { DEFAULT_ENVIRONMENT }

ConfigKeys == { u.key : u \in UpdateInputs }
ConfigCategories == { u.category : u \in UpdateInputs }
ConfigIds == { <<u.category, u.key, e>> : u \in UpdateInputs, e \in ConfigEnvironments }

\* orderBy category asc: the categories in ascending order
CategoriesAsc == <<"api", "email">>
CategoryRank(category) == CHOOSE i \in DOMAIN CategoriesAsc : CategoriesAsc[i] = category

\* findMany({ where }), lines 27-38: the ids of the rows selected
findMany(rows, category, environment) ==
    { id \in ConfigIds :
        /\ rows[id] # NoRow
        /\ id[3] = environment
        /\ (category = NoCategory \/ id[1] = category) }

\* lines 41-79: result[config.key] is assigned in the order of the rows, so
\* the row of the greatest category is the one that stays
transform(rows, ids) ==
    [k \in { id[2] : id \in ids } |->
        LET id == CHOOSE i \in ids :
                     /\ i[2] = k
                     /\ \A j \in ids : j[2] = k => CategoryRank(j[1]) <= CategoryRank(i[1])
        IN  [value |-> typedValue(rows[id]), type |-> rows[id].type,
             category |-> rows[id].category, isSecret |-> rows[id].isSecret]]

\* getDefaultConfigs, lines 278-417 (the entries of the keys in use)
defaults ==
    [k \in {"maxRequestsPerMinute", "enableRateLimiting", "supportEmail"} |->
        CASE k = "maxRequestsPerMinute" ->
                 [value |-> Num(60), type |-> "number", category |-> "api"]
          [] k = "enableRateLimiting" ->
                 [value |-> Bool(TRUE), type |-> "boolean", category |-> "api"]
          [] OTHER ->
                 [value |-> Str(<<"support@parkingdirekt.com">>), type |-> "string",
                  category |-> "email"]]

getDefaultConfigsUnfiltered(category) == defaults

\* lines 419-429
getDefaultConfigs(category) ==
    IF category # NoCategory
      THEN [k \in { d \in DOMAIN defaults : defaults[d].category = category } |-> defaults[k]]
      ELSE defaults

\* `config_${category || 'all'}_${environment}`
configCacheKey(category, environment) ==
    <<"config", "_", IF category = NoCategory THEN "all" ELSE category, "_", environment>>

ConfigCacheKeys ==
    { configCacheKey(c, e) : c \in ConfigCategories \cup {NoCategory}, e \in ConfigEnvironments }

NoEntry == [absent |-> TRUE]

\* lines 20-21: the entry is there and younger than the TTL
configCacheHit(entries, cacheKey, t) ==
    entries[cacheKey] # NoEntry /\ t - entries[cacheKey].timestamp < ConfigManager_CACHE_TTL

\* invalidateCache(category, environment), lines 264-276
invalidateCache(entries, category, environment) ==
    IF category # NoCategory
      THEN [entries EXCEPT ![configCacheKey(category, environment)] = NoEntry]
      ELSE [k \in DOMAIN entries |-> IF startsWith(k, <<"config", "_">>) THEN NoEntry
                                                                          ELSE entries[k]]

\* the reads the callers make
DefaultInputs == { JSNullValue }

ConfigBatches ==
    { << Update("maxRequestsPerMinute", Num(2), "api", "number", FALSE),
         Update("supportEmail", Str(<<"help@x.com">>), "email", "string", FALSE) >>,
      << Update("apiToken", Str(<<"s3cret">>), "api", "string", TRUE),
         Update("maxRequestsPerMinute", Num(5), "api", "number", FALSE) >> }

Unset == [unset |-> TRUE]

ConfigIdle == [pc |-> "idle"]

\* no update yet; n numbers the operations
NoWrite == [pc |-> "idle", n |-> 0]

\* the row an upsert writes, lines 161-186
upsert(rows, update, environment) ==
    [rows EXCEPT ![<<update.category, update.key, environment>>] =
        ConfigRow(stringValue(update.value, update.type), update.type, update.category,
                  update.isSecret)]

RECURSIVE upsertAll(_, _, _)
upsertAll(rows, updates, environment) ==
    IF updates = << >> THEN rows
    ELSE upsertAll(upsert(rows, Head(updates), environment), Tail(updates), environment)

\* what is in the table although upsert number failAt of the batch failed
transactionPartial(rows, updates, environment, failAt) ==
    IF failAt = 0 THEN upsertAll(rows, updates, environment)
    ELSE upsertAll(rows, SubSeq(updates, 1, failAt - 1), environment)

\* prisma.$transaction, lines 210-257: the table after the callback ran with
\* upsert number failAt throwing (0: none throws); a throw rolls everything back
transaction(rows, updates, environment, failAt) ==
    IF failAt = 0 THEN upsertAll(rows, updates, environment) ELSE rows

\* getConfigValue, lines 99-105
valueOf(configs, key, defaultValue) ==
    IF key \in DOMAIN configs THEN configs[key].value ELSE defaultValue

\* the read `call` returns `configs`
configReturn(call, configs, fromCache, readFailed) ==
    /\ configCall' = ConfigIdle
    /\ configReturned' =
          [pc |-> "done", via |-> call.via, category |-> call.category,
           environment |-> call.environment, key |-> call.key,
           expect |-> call.expect, stable |-> call.stable,
           fromCache |-> fromCache, readFailed |-> readFailed,
           configs |-> configs,
           value |-> IF call.via = "getConfigValue"
                       THEN valueOf(configs, call.key, call.defaultValue)
                       ELSE Unset]

\* getSystemConfig(category, environment), or getConfigValue(key, defaultValue,
\* environment), which asks for all categories.  Lines 17-23: the cache is
\* consulted; on a miss the query is issued
getSystemConfigStart(via, category, key, defaultValue, environment) ==
    LET cacheKey == configCacheKey(category, environment)
        call == [pc |-> "query", via |-> via, category |-> category,
                 environment |-> environment, key |-> key,
                 defaultValue |-> defaultValue,
                 expect |-> IF via = "getConfigValue"
                              THEN configSettled[<<key, environment>>] ELSE Unset,
                 stable |-> TRUE, configs |-> Unset]
    IN  /\ configCall.pc = "idle"
        /\ nConfigOps < MaxConfigOps
        /\ nConfigOps' = nConfigOps + 1
        /\ IF configCacheHit(configCache, cacheKey, configNow)
             THEN configReturn(call, configCache[cacheKey].data, TRUE, FALSE)
             ELSE /\ configCall' = call
                  /\ UNCHANGED configReturned
        /\ UNCHANGED <<configRows, configCache, configNow, configWrite, configSettled,
                       notConfigVars>>

getSystemConfig(category, environment) ==
    getSystemConfigStart("getSystemConfig", category, "<none>", Unset, environment)

\* lines 97-98
getConfigValue(key, defaultValue, environment) ==
    getSystemConfigStart("getConfigValue", NoCategory, key, defaultValue, environment)

\* lines 32-38 and 89-94: the query runs against the table, or fails and the
\* call returns the defaults
getSystemConfigFetch(ok) ==
    /\ configCall.pc = "query"
    /\ IF ok
         THEN /\ configCall' =
                   [configCall EXCEPT
                      !.pc = "fetched",
                      !.configs = transform(configRows,
                                     findMany(configRows, configCall.category,
                                              configCall.environment))]
              /\ UNCHANGED configReturned
         ELSE configReturn(configCall, getDefaultConfigs(configCall.category), FALSE, TRUE)
    /\ UNCHANGED <<configRows, configCache, configNow, configWrite, configSettled,
                   nConfigOps, notConfigVars>>

\* lines 81-87: the result is cached and returned
getSystemConfigResume ==
    /\ configCall.pc = "fetched"
    /\ configCache' =
          [configCache EXCEPT
             ![configCacheKey(configCall.category, configCall.environment)] =
                 [data |-> configCall.configs, timestamp |-> configNow]]
    /\ configReturn(configCall, configCall.configs, FALSE, FALSE)
    /\ UNCHANGED <<configRows, configNow, configWrite, configSettled, nConfigOps,
                   notConfigVars>>

ConfigWriteFree == configWrite.pc \in {"idle", "done"} /\ nConfigOps < MaxConfigOps

\* a committed write of `updates`: the read in flight and the settled values
\* of the keys written are no longer what a caller may rely on
committed(updates, environment) ==
    LET touched == { <<updates[i].key, environment>> : i \in DOMAIN updates }
    IN  /\ configCall' =
              IF configCall.pc # "idle"
                   /\ <<configCall.key, configCall.environment>> \in touched
                THEN [configCall EXCEPT !.stable = FALSE] ELSE configCall
        /\ configSettled' = [ke \in DOMAIN configSettled |->
                                IF ke \in touched THEN Unset ELSE configSettled[ke]]

\* updateConfig, lines 143-194: the upsert, or its failure thrown to the caller
updateConfig(update, environment, ok) ==
    /\ ConfigWriteFree
    /\ nConfigOps' = nConfigOps + 1
    /\ IF ok
         THEN /\ configRows' = upsert(configRows, update, environment)
              /\ committed(<<update>>, environment)
              /\ configWrite' = [pc |-> "written", op |-> "updateConfig",
                                 n |-> nConfigOps + 1,
                                 updates |-> <<update>>, environment |-> environment]
         ELSE /\ configWrite' = [pc |-> "done", op |-> "updateConfig",
                                 n |-> nConfigOps + 1,
                                 updates |-> <<update>>, environment |-> environment,
                                 error |-> TRUE]
              /\ UNCHANGED <<configRows, configCall, configSettled>>
    /\ UNCHANGED <<configCache, configNow, configReturned, notConfigVars>>

\* updateMultipleConfigs, lines 210-257: the transaction, with upsert number
\* failAt throwing (0: none)
updateMultipleConfigs(updates, environment, failAt) ==
    /\ ConfigWriteFree
    /\ nConfigOps' = nConfigOps + 1
    /\ configRows' = transaction(configRows, updates, environment, failAt)
    /\ IF failAt = 0
         THEN /\ committed(updates, environment)
              /\ configWrite' = [pc |-> "written", op |-> "updateMultipleConfigs",
                                 n |-> nConfigOps + 1,
                                 updates |-> updates, environment |-> environment]
         ELSE /\ configWrite' = [pc |-> "done", op |-> "updateMultipleConfigs",
                                 n |-> nConfigOps + 1,
                                 updates |-> updates, environment |-> environment,
                                 error |-> TRUE, failAt |-> failAt]
              /\ UNCHANGED <<configCall, configSettled>>
    /\ UNCHANGED <<configCache, configNow, configReturned, notConfigVars>>

RECURSIVE invalidateAll(_, _, _)
invalidateAll(entries, updates, environment) ==
    IF updates = << >> THEN entries
    ELSE invalidateAll(invalidateCache(entries, Head(updates).category, environment),
                       Tail(updates), environment)

\* lines 188-189 and 259-261: after the awaited write the caches of the
\* categories written are invalidated and the operation returns
configWriteReturn ==
    /\ configWrite.pc = "written"
    /\ configCache' = invalidateAll(configCache, configWrite.updates,
                                    configWrite.environment)
    /\ configSettled' =
          IF configWrite.op = "updateConfig"
            THEN [configSettled EXCEPT
                    ![<<configWrite.updates[1].key, configWrite.environment>>] =
                        [value |-> configWrite.updates[1].value,
                         isSecret |-> configWrite.updates[1].isSecret]]
            ELSE configSettled
    /\ configWrite' = [pc |-> "done", op |-> configWrite.op, n |-> configWrite.n,
                       updates |-> configWrite.updates,
                       environment |-> configWrite.environment, error |-> FALSE]
    /\ UNCHANGED <<configRows, configNow, configCall, configReturned, nConfigOps,
                   notConfigVars>>

\* Date.now() moves on to 4 or 5 minutes
ConfigTick ==
    /\ \E t \in {4, 5} : t > configNow /\ configNow' = t
    /\ UNCHANGED <<configRows, configCache, configCall, configReturned, configWrite,
                   configSettled, nConfigOps, notConfigVars>>

\* the configuration manager before any call, for the specifications that
\* leave it alone
ConfigIdleState ==
    /\ configRows = [id \in ConfigIds |-> NoRow]
    /\ configCache = [k \in ConfigCacheKeys |-> NoEntry]
    /\ configNow = 0
    /\ configCall = ConfigIdle
    /\ configReturned = ConfigIdle
    /\ configWrite = NoWrite
    /\ configSettled = [ke \in ConfigKeys \X ConfigEnvironments |-> Unset]
    /\ nConfigOps = 0


InitConfig ==
    /\ configRows \in { [id \in ConfigIds |-> NoRow],
                        [id \in ConfigIds |->
                            IF id = <<"api", "maxRequestsPerMinute", DEFAULT_ENVIRONMENT>>
                              THEN ConfigRow(<<"60">>, "number", "api", FALSE)
                              ELSE NoRow] }
    /\ configCache = [k \in ConfigCacheKeys |-> NoEntry]
    /\ configNow = 0
    /\ configCall = ConfigIdle
    /\ configReturned = ConfigIdle
    /\ configWrite = NoWrite
    /\ configSettled = [ke \in ConfigKeys \X ConfigEnvironments |-> Unset]
    /\ nConfigOps = 0

NextConfig ==
    \/ \E c \in ConfigCategories \cup {NoCategory}, e \in ConfigEnvironments :
          getSystemConfig(c, e)
    \/ \E k \in ConfigKeys, d \in DefaultInputs, e \in ConfigEnvironments :
          getConfigValue(k, d, e)
    \/ \E ok \in BOOLEAN : getSystemConfigFetch(ok)
    \/ getSystemConfigResume
    \/ \E u \in UpdateInputs, e \in WriteEnvironments, ok \in BOOLEAN :
          updateConfig(u, e, ok)
    \/ \E b \in ConfigBatches, e \in WriteEnvironments, failAt \in 0..2 :
          updateMultipleConfigs(b, e, failAt)
    \/ configWriteReturn
    \/ ConfigTick

----------------------------------------------------------------------------
(* Email delivery (EmailDeliveryManager, src/lib/email/delivery.ts).  A     *)
(* message stands for the options of a call (recipient and subject); time   *)
(* is counted in seconds.  Slot 0 is the activation of sendEmail that the   *)
(* retry processor awaits, the other slots are the callers' activations.    *)

MaxMailCalls    == 2     \* sendEmail / sendEmailWithFailover calls made for a message
MaxMailInFlight == 2     \* callers' activations in flight at once
MaxSends        == 6     \* times a message is handed to a provider in one behaviour
MaxMailTime     == 90    \* the clock of the retry timer stops here

RetryIntervalS == 30     \* setInterval(..., 30000)
RetryLimit     == 3      \* const retryLimit = 3

Messages == { "m1" }
MailSlots == 1..MaxMailInFlight
Activations == 0..MaxMailInFlight

NoProvider == "<undefined>"
ProviderInputs == { NoProvider, "smtp", "sendgrid", "ses" }

\* the outcomes of provider.send: SMTPProvider catches every error and
\* returns a failure, SendGridProvider returns a success
SendOutcomes(provider) == IF provider = "sendgrid" THEN {TRUE} ELSE BOOLEAN

Result(success, provider, error) ==
    [success |-> success, provider |-> provider, error |-> error]

\* lines 76-80
NotFound == Result(FALSE, "none", "not found")

\* lines 136-140
AllFailed == Result(FALSE, "failover", "All email providers failed")

MailIdle == [pc |-> "idle"]

\* Array.from(this.providers.keys()): the names in the order of registration
providerKeysReversed(registered) ==
    [i \in DOMAIN registered |-> registered[Len(registered) + 1 - i]]

providerKeys(registered) == registered

has(registered, name) == \E i \in DOMAIN registered : registered[i] = name

\* addToRetryQueue(options, provider, attempt), lines 266-278
addToRetryQueue(queue, message, provider, attempt) ==
    IF attempt <= RetryLimit
      THEN Append(queue, [message |-> message, attempt |-> attempt,
                          nextRetry |-> mailNow + 2^attempt, provider |-> provider])
      ELSE queue

\* shouldRetry, lines 257-264
shouldRetry == notificationRetryLimit > 0

\* retryQueue.filter(item => item.nextRetry <= now) when ready, and
\* retryQueue.filter(item => item.nextRetry > now) when not, lines 283-285
RECURSIVE SelectItems(_, _)
SelectItems(queue, ready) ==
    IF queue = << >> THEN << >>
    ELSE IF (Head(queue).nextRetry <= mailNow) = ready
      THEN <<Head(queue)>> \o SelectItems(Tail(queue), ready)
      ELSE SelectItems(Tail(queue), ready)

\* logEmailAttempt, lines 304-320: a pending row
logEmailAttempt(log, message, provider) ==
    Append(log, [message |-> message, provider |-> provider, status |-> "pending"])

\* logEmailResult, lines 322-343: updateMany on the pending rows of the
\* recipient, subject and provider
logEmailResult(log, message, provider, result) ==
    [i \in DOMAIN log |->
        IF log[i].message = message /\ log[i].provider = provider
             /\ log[i].status = "pending"
          THEN [log[i] EXCEPT !.status = IF result.success THEN "sent" ELSE "failed"]
          ELSE log[i]]

\* sendEmail(options, provider) up to its first await, lines 72-84, for the
\* caller `caller`: the activation that results, with the place in the table
\* of the row that it creates
activation(message, provider, caller) ==
    [pc |-> "pending", message |-> message,
     provider |-> IF provider = NoProvider THEN defaultProvider ELSE provider,
     caller |-> caller, row |-> Len(emailDeliveryLog) + 1]

MailFree(s) ==
    /\ s \in MailSlots
    /\ mailCalls[s].pc = "idle"
    /\ \A t \in MailSlots : t < s => mailCalls[t].pc # "idle"

\* sendEmail(options, provider) called by a caller of the module, lines 70-84
sendEmail(s, message, provider) ==
    LET selectedProvider == IF provider = NoProvider THEN defaultProvider ELSE provider
    IN  /\ MailFree(s)
        /\ Len(made[message]) < MaxMailCalls
        /\ made' = [made EXCEPT ![message] = Append(@, "sendEmail")]
        /\ IF ~has(providers, selectedProvider)
             THEN /\ mailReturned' = [pc |-> "done", kind |-> "sendEmail", message |-> message,
                                      result |-> NotFound]
                  /\ UNCHANGED <<mailCalls, emailDeliveryLog>>
             ELSE /\ mailCalls' = [mailCalls EXCEPT ![s] =
                         activation(message, provider, [kind |-> "sendEmail"])]
                  /\ emailDeliveryLog' =
                         logEmailAttempt(emailDeliveryLog, message, selectedProvider)
                  /\ UNCHANGED mailReturned
        /\ UNCHANGED <<providers, defaultProvider, notificationRetryLimit, retryQueue,
                       mailNow, timerDue, handed, delivered, notMailVars>>

\* sendEmailWithFailover(options), lines 121-126: the first provider is tried
sendEmailWithFailover(s, message) ==
    LET keys == providerKeys(providers)
    IN  /\ MailFree(s)
        /\ Len(made[message]) < MaxMailCalls
        /\ made' = [made EXCEPT ![message] = Append(@, "failover")]
        /\ mailCalls' = [mailCalls EXCEPT ![s] =
              activation(message, Head(keys),
                         [kind |-> "failover", rest |-> Tail(keys), tried |-> << >>,
                          outcomes |-> << >>, registered |-> providers])]
        /\ emailDeliveryLog' = logEmailAttempt(emailDeliveryLog, message, Head(keys))
        /\ UNCHANGED <<providers, defaultProvider, notificationRetryLimit, retryQueue,
                       mailNow, timerDue, handed, delivered, mailReturned, notMailVars>>

\* lines 87-90: the provider is handed the message and the result is logged
sendEmailSend(a, success) ==
    LET call == mailCalls[a]
        result == Result(success, call.provider, IF success THEN "" ELSE "send failed")
    IN  /\ call.pc = "pending"
        /\ success \in SendOutcomes(call.provider)
        /\ handed[call.message] < MaxSends
        /\ handed' = [handed EXCEPT ![call.message] = @ + 1]
        /\ delivered' = [delivered EXCEPT ![call.message] = @ + (IF success THEN 1 ELSE 0)]
        /\ emailDeliveryLog' =
              logEmailResult(emailDeliveryLog, call.message, call.provider, result)
        /\ mailCalls' = [mailCalls EXCEPT ![a] =
              [pc |-> "logged", message |-> call.message, provider |-> call.provider,
               caller |-> call.caller, row |-> call.row, result |-> result]]
        /\ UNCHANGED <<providers, defaultProvider, notificationRetryLimit, retryQueue,
                       mailNow, timerDue, made, mailReturned, notMailVars>>

\* lines 92-97: the retry queue after sendEmail looked at its result
afterSendEmail(call) ==
    IF ~call.result.success /\ shouldRetry
      THEN addToRetryQueue(retryQueue, call.message, call.provider, 1)
      ELSE retryQueue

\* lines 291-293: the retry queue after the retry processor looked at the result
afterRetry(call) ==
    IF ~call.result.success /\ call.caller.attempt < 3
      THEN addToRetryQueue(afterSendEmail(call), call.message, call.provider,
                           call.caller.attempt + 1)
      ELSE afterSendEmail(call)

\* sendEmail returns to a caller of the module
returnToCaller(a) ==
    LET call == mailCalls[a]
    IN  /\ call.caller.kind = "sendEmail"
        /\ retryQueue' = afterSendEmail(call)
        /\ mailCalls' = [mailCalls EXCEPT ![a] = MailIdle]
        /\ mailReturned' = [pc |-> "done", kind |-> "sendEmail", message |-> call.message,
                            result |-> call.result]
        /\ UNCHANGED emailDeliveryLog

\* sendEmail returns to sendEmailWithFailover, lines 126-140
returnToFailover(a) ==
    LET call == mailCalls[a]
        tried == Append(call.caller.tried, call.provider)
        outcomes == Append(call.caller.outcomes, call.result.success)
        answer(result) == [pc |-> "done", kind |-> "failover", message |-> call.message,
                           result |-> result, tried |-> tried, outcomes |-> outcomes,
                           registered |-> call.caller.registered]
    IN  /\ call.caller.kind = "failover"
        /\ retryQueue' = afterSendEmail(call)
        /\ IF call.result.success
             THEN /\ mailReturned' = answer(call.result)
                  /\ mailCalls' = [mailCalls EXCEPT ![a] = MailIdle]
                  /\ UNCHANGED emailDeliveryLog
             ELSE IF call.caller.rest # << >>
               THEN /\ mailCalls' = [mailCalls EXCEPT ![a] =
                          activation(call.message, Head(call.caller.rest),
                                     [call.caller EXCEPT !.rest = Tail(@),
                                                         !.tried = tried,
                                                         !.outcomes = outcomes])]
                    /\ emailDeliveryLog' = logEmailAttempt(emailDeliveryLog, call.message,
                                                           Head(call.caller.rest))
                    /\ UNCHANGED mailReturned
               ELSE /\ mailReturned' = answer(AllFailed)
                    /\ mailCalls' = [mailCalls EXCEPT ![a] = MailIdle]
                    /\ UNCHANGED emailDeliveryLog

\* the activation of sendEmail for an item of the retry queue, line 289
retryItem(items) ==
    activation(Head(items).message, Head(items).provider,
               [kind |-> "retry", attempt |-> Head(items).attempt, rest |-> Tail(items)])

\* sendEmail returns to the retry processor, lines 289-293, which goes on
\* to the next item that was ready
returnToRetryProcessor(a) ==
    LET call == mailCalls[a]
    IN  /\ call.caller.kind = "retry"
        /\ retryQueue' = afterRetry(call)
        /\ IF call.caller.rest # << >>
             THEN /\ mailCalls' = [mailCalls EXCEPT ![a] = retryItem(call.caller.rest)]
                  /\ emailDeliveryLog' =
                        logEmailAttempt(emailDeliveryLog, Head(call.caller.rest).message,
                                        Head(call.caller.rest).provider)
             ELSE /\ mailCalls' = [mailCalls EXCEPT ![a] = MailIdle]
                  /\ UNCHANGED emailDeliveryLog
        /\ UNCHANGED mailReturned

\* lines 92-97: sendEmail enqueues a retry of a failure and returns
sendEmailFinish(a) ==
    /\ mailCalls[a].pc = "logged"
    /\ \/ returnToCaller(a)
       \/ returnToFailover(a)
       \/ returnToRetryProcessor(a)
    /\ UNCHANGED <<providers, defaultProvider, notificationRetryLimit, mailNow, timerDue,
                   handed, delivered, made, notMailVars>>

\* startRetryProcessor, lines 281-289: the timer fires, the items that are
\* due leave the queue and the first of them is sent
retryProcessor ==
    LET readyToRetry == SelectItems(retryQueue, TRUE)
    IN  /\ timerDue
        /\ mailCalls[0].pc = "idle"
        /\ timerDue' = FALSE
        /\ retryQueue' = SelectItems(retryQueue, FALSE)
        /\ IF readyToRetry # << >>
             THEN /\ mailCalls' = [mailCalls EXCEPT ![0] = retryItem(readyToRetry)]
                  /\ emailDeliveryLog' =
                        logEmailAttempt(emailDeliveryLog, Head(readyToRetry).message,
                                        Head(readyToRetry).provider)
             ELSE UNCHANGED <<mailCalls, emailDeliveryLog>>
        /\ UNCHANGED <<providers, defaultProvider, notificationRetryLimit, mailNow,
                       handed, delivered, made, mailReturned, notMailVars>>

\* thirty seconds pass and the timer is due
MailTick ==
    /\ ~timerDue
    /\ mailNow + RetryIntervalS <= MaxMailTime
    /\ mailNow' = mailNow + RetryIntervalS
    /\ timerDue' = TRUE
    /\ UNCHANGED <<providers, defaultProvider, notificationRetryLimit, retryQueue,
                   mailCalls, emailDeliveryLog, handed, delivered, made, mailReturned,
                   notMailVars>>

\* the constructor has run: smtp is registered, sendgrid when its key is
\* configured, lines 50-65
MailStart ==
    /\ providers \in { <<"smtp">>, <<"smtp", "sendgrid">> }
    /\ defaultProvider \in { providers[i] : i \in DOMAIN providers }
    /\ notificationRetryLimit \in {0, 3}
    /\ retryQueue = << >>
    /\ mailNow = 0
    /\ timerDue = FALSE
    /\ mailCalls = [a \in Activations |-> MailIdle]
    /\ emailDeliveryLog = << >>
    /\ handed = [m \in Messages |-> 0]
    /\ delivered = [m \in Messages |-> 0]
    /\ made = [m \in Messages |-> << >>]
    /\ mailReturned = MailIdle

\* email delivery before any call, for the specifications that leave it alone
MailIdleState ==
    /\ providers = <<"smtp">>
    /\ defaultProvider = "smtp"
    /\ notificationRetryLimit = 3
    /\ retryQueue = << >>
    /\ mailNow = 0
    /\ timerDue = FALSE
    /\ mailCalls = [a \in Activations |-> MailIdle]
    /\ emailDeliveryLog = << >>
    /\ handed = [m \in Messages |-> 0]
    /\ delivered = [m \in Messages |-> 0]
    /\ made = [m \in Messages |-> << >>]
    /\ mailReturned = MailIdle

NextMail ==
    \/ \E s \in MailSlots, m \in Messages, p \in ProviderInputs : sendEmail(s, m, p)
    \/ \E s \in MailSlots, m \in Messages : sendEmailWithFailover(s, m)
    \/ \E a \in Activations, success \in BOOLEAN : sendEmailSend(a, success)
    \/ \E a \in Activations : sendEmailFinish(a)
    \/ retryProcessor
    \/ MailTick

----------------------------------------------------------------------------
(* Bookings and QR codes: POST /api/bookings (src/unnamed/part_002), PUT     *)
(* /api/bookings/[id] (src/unnamed/part_013), POST /api/verify-qr            *)
(* (src/src/app/api/verify-qr/route.ts) and the QR helpers                   *)
(* (src/unnamed/part_001).  Time is counted in milliseconds from midnight of *)
(* the day of the bookings.  A QR code is the sequence of the parts that     *)
(* split('_') gives; a part is the decimal numeral of a number or some other *)
(* text.  A handler is cut at the awaits of its queries.                     *)

MaxBookings  == 2     \* rows of the booking table
MaxBookOps   == 3     \* requests received in one behaviour
MaxPostsInFlight == 2 \* POST /api/bookings requests in flight at once

Minute == 60 * 1000
Hour   == 60 * Minute

\* maxAge: number = 24 * 60 * 60 * 1000
DefaultMaxAge == 24 * 60 * 60 * 1000

\* the text of an ISO date-time of the day, and some text that is none
ISO(h, m) == [iso |-> TRUE, h |-> h, m |-> m]
NotADate == [iso |-> FALSE, h |-> 0, m |-> 0]

\* new Date(text) of an ISO date-time, as its time value
Date(text) == text.h * Hour + text.m * Minute

\* z.string().datetime()
isDatetime(text) == text.iso

Digits(n) == [digits |-> n]
Text(s) == [text |-> s]

isText(part, s) == "text" \in DOMAIN part /\ part.text = s

\* the text of a part as the id of a query: a numeral is the id of no row
textOf(part) == IF "text" \in DOMAIN part THEN part.text ELSE "<numeral>"

\* parseInt(part)
parseInt(part) == IF "digits" \in DOMAIN part THEN Num(part.digits) ELSE NaN

isNaN(value) == "nan" \in DOMAIN value

\* generateBookingQRCode(bookingId, userId) at the time dateNow, part_001
\* lines 21-25
generateBookingQRCode(bookingId, userId, dateNow) ==
    << Text("BOOKING"), Text(bookingId), Text(userId), Digits(dateNow), Text("<random>") >>

\* generateParkingSpaceQRCode(spaceId, ownerId) at the time dateNow, part_001
\* lines 27-31
generateParkingSpaceQRCode(spaceId, ownerId, dateNow) ==
    << Text("SPACE"), Text(spaceId), Text(ownerId), Digits(dateNow), Text("<random>") >>

\* parseQRCode(qrCode), part_001 lines 33-74; null is JSNullValue
parseQRCode(qrCode) ==
    IF Len(qrCode) >= 2 /\ isText(qrCode[1], "BOOKING") /\ Len(qrCode) >= 5
      THEN [type |-> "BOOKING", id |-> qrCode[2], userId |-> qrCode[3],
            timestamp |-> parseInt(qrCode[4]), random |-> qrCode[5]]
    ELSE IF Len(qrCode) >= 2 /\ isText(qrCode[1], "SPACE") /\ Len(qrCode) >= 5
      THEN [type |-> "SPACE", id |-> qrCode[2], userId |-> qrCode[3],
            timestamp |-> parseInt(qrCode[4]), random |-> qrCode[5]]
    ELSE JSNullValue

\* validateQRCodeTimestamp with `<` for `<=`
validateQRCodeTimestampStrict(timestamp, maxAge, dateNow) ==
    IF isNaN(timestamp) THEN FALSE ELSE dateNow - timestamp.num < maxAge

\* validateQRCodeTimestamp(timestamp, maxAge), part_001 lines 76-80, at the
\* time dateNow; a comparison with NaN is false
validateQRCodeTimestamp(timestamp, maxAge, dateNow) ==
    IF isNaN(timestamp) THEN FALSE ELSE dateNow - timestamp.num <= maxAge

\* the users, with the role of their session
NoSession == [id |-> "<none>", role |-> "<none>"]
BookSessions ==
    { NoSession,
      [id |-> "renter", role |-> "RENTER"],
      [id |-> "guest",  role |-> "RENTER"],
      [id |-> "owner",  role |-> "OWNER"],
      [id |-> "admin",  role |-> "ADMIN"] }

\* the sessions of the requests that create bookings
PostSessions ==
    { NoSession, [id |-> "renter", role |-> "RENTER"], [id |-> "owner", role |-> "OWNER"] }

\* the parkingSpace table: s1 and s2 are active, s3 is not
NoSpace == [id |-> "<none>", ownerId |-> "<none>", isActive |-> FALSE]
parkingSpaces ==
    { [id |-> "s1", ownerId |-> "owner", isActive |-> TRUE],
      [id |-> "s2", ownerId |-> "owner", isActive |-> TRUE],
      [id |-> "s3", ownerId |-> "owner", isActive |-> FALSE] }

\* z.string().cuid()
isCuid(id) == id # "<no cuid>"

\* prisma.parkingSpace.findUnique({ where: { id } })
findUniqueSpace(id) ==
    IF \E s \in parkingSpaces : s.id = id
      THEN CHOOSE s \in parkingSpaces : s.id = id
      ELSE NoSpace

BookingStatuses == { "PENDING", "CONFIRMED", "ACTIVE", "COMPLETED", "CANCELLED" }

\* the ids that the table gives its rows, in order
BookingIds == [i \in 1..(MaxBookings + 1) |->
                  CASE i = 1 -> "b1" [] i = 2 -> "b2" [] i = 3 -> "b3" [] OTHER -> "b4"]

NoBooking == [id |-> "<none>"]

\* prisma.booking.findUnique({ where: { id } }) with its parking space
findUniqueBooking(rows, id) ==
    IF \E i \in DOMAIN rows : rows[i].id = id
      THEN LET row == rows[CHOOSE i \in DOMAIN rows : rows[i].id = id]
           IN  [id |-> row.id, userId |-> row.userId,
                parkingSpaceId |-> row.parkingSpaceId,
                ownerId |-> findUniqueSpace(row.parkingSpaceId).ownerId,
                startTime |-> row.startTime, endTime |-> row.endTime,
                status |-> row.status]
      ELSE NoBooking

\* prisma.booking.update({ where: { id }, data: { status } })
updateStatus(rows, id, status) ==
    [i \in DOMAIN rows |->
        IF rows[i].id = id THEN [rows[i] EXCEPT !.status = status] ELSE rows[i]]

\* part_002 lines 127-133: the bookings included with the parking space
activeBookings(rows, spaceId) ==
    { rows[i] : i \in { j \in DOMAIN rows :
                          /\ rows[j].parkingSpaceId = spaceId
                          /\ rows[j].status \in {"PENDING", "CONFIRMED", "ACTIVE"} } }

\* part_002 lines 162-169
hasConflict(found, startTime, endTime) ==
    \E booking \in found :
        startTime < booking.endTime /\ endTime > booking.startTime

\* allowedStatuses with CONFIRMED allowed to the user of the booking
allowedStatusesWide(isOwner, isUser, isAdmin) ==
    IF isOwner THEN {"CONFIRMED", "ACTIVE", "COMPLETED"}
    ELSE IF isUser THEN {"CANCELLED", "CONFIRMED"}
    ELSE IF isAdmin THEN BookingStatuses
    ELSE {}

\* part_013 lines 126-137
allowedStatuses(isOwner, isUser, isAdmin) ==
    IF isOwner THEN {"CONFIRMED", "ACTIVE", "COMPLETED"}
    ELSE IF isUser THEN {"CANCELLED"}
    ELSE IF isAdmin THEN BookingStatuses
    ELSE {}

isAdminRole(role) == role \in {"ADMIN", "SUPER_ADMIN"}

BookIdle == [pc |-> "idle"]
NoInfo == [none |-> TRUE]
NoResponse == [route |-> "<none>", status |-> 0, error |-> "", info |-> NoInfo]
PostSlots == 1..MaxPostsInFlight

\* the body of a POST /api/bookings request
BookingBody(parkingSpaceId, startTime, endTime, totalPrice) ==
    [parkingSpaceId |-> parkingSpaceId, startTime |-> startTime,
     endTime |-> endTime, totalPrice |-> totalPrice]

\* the time ranges asked for: three proper ones, an empty one and a reversed
\* one
RangeInputs ==
    { <<ISO(10, 0),  ISO(11, 0)>>,
      <<ISO(10, 30), ISO(11, 30)>>,
      <<ISO(11, 0),  ISO(12, 0)>>,
      <<ISO(11, 0),  ISO(11, 0)>>,
      <<ISO(11, 0),  ISO(10, 30)>> }

\* the bodies sent: every range for the two active spaces, and one body each
\* for the inactive space, a space that does not exist, an id that is no cuid,
\* a start that is no date and a negative price
BodyInputs ==
    { BookingBody(id, range[1], range[2], 10) : id \in {"s1", "s2"}, range \in RangeInputs }
    \cup { BookingBody("s3", ISO(10, 0), ISO(11, 0), 10),
           BookingBody("s9", ISO(10, 0), ISO(11, 0), 10),
           BookingBody("<no cuid>", ISO(10, 0), ISO(11, 0), 10),
           BookingBody("s1", NotADate, ISO(11, 0), 10),
           BookingBody("s1", ISO(10, 0), ISO(11, 0), -1) }

\* createBookingSchema.parse(body) succeeds, part_002 lines 7-12
createBookingSchema(body) ==
    /\ isCuid(body.parkingSpaceId)
    /\ isDatetime(body.startTime)
    /\ isDatetime(body.endTime)
    /\ body.totalPrice >= 0

\* the status of a PUT body: a status, none, or a word that is no status
StatusInputs == BookingStatuses \cup { "<undefined>", "PAID" }

\* updateBookingSchema.parse(body) succeeds, part_013 lines 7-9
updateBookingSchema(status) == status \in BookingStatuses \cup { "<undefined>" }

\* the action of a verify-qr body
ActionInputs == { "check-in", "check-out", "verify", "<undefined>", "open" }

\* verifyQRSchema.parse(body) succeeds, route.ts lines 8-11
verifyQRSchema(qrCode, action) ==
    /\ ~(Len(qrCode) = 1 /\ isText(qrCode[1], ""))
    /\ action \in { "check-in", "check-out", "verify", "<undefined>" }

\* .default('verify')
actionOf(action) == IF action = "<undefined>" THEN "verify" ELSE action

\* the ids asked for: the rows that may exist and one that never does
BookingIdInputs == { "b1", "b2", "b9" }

\* the QR codes presented at the time dateNow: codes of generateBookingQRCode
\* and generateParkingSpaceQRCode made just now, 24 hours ago and one
\* millisecond earlier, a code with a timestamp that is no number, the code
\* that POST /api/bookings stores, the empty string and a word
QRInputs(dateNow) ==
    { generateBookingQRCode("b1", "renter", t) :
        t \in { dateNow, dateNow - DefaultMaxAge, dateNow - DefaultMaxAge - 1 } }
    \cup { generateBookingQRCode("b2", "renter", dateNow),
           generateBookingQRCode("b9", "renter", dateNow),
           << Text("BOOKING"), Text("b1"), Text("renter"), Text("soon"), Text("<random>") >>,
           generateParkingSpaceQRCode("s1", "owner", dateNow),
           generateParkingSpaceQRCode("s9", "owner", dateNow - DefaultMaxAge - 1),
           << Text("BOOKING"), Digits(dateNow), Text("<random>") >>,
           << Text("") >>,
           << Text("parking") >> }

\* NextResponse.json(body, { status }): the HTTP status, the error of the
\* body, and what the handler did on the way
jsonResponse(route, status, error, info) ==
    bookResponse' = [route |-> route, status |-> status, error |-> error, info |-> info]

BookRequestFree == nBookOps < MaxBookOps

----------------------------------------------------------------------------
(* POST /api/bookings, part_002 lines 102-244.  The handler is cut after the *)
(* query that reads the parking space with its bookings.                     *)

inFlightPosts == Cardinality({ s \in PostSlots : posts[s].pc # "idle" })

\* lines 104-135: the session, the role and the body are checked and the
\* parking space is read with its bookings that are not over
bookingsPOST(slot, session, body) ==
    /\ posts[slot].pc = "idle"
    /\ \A s \in PostSlots : s < slot => posts[s].pc # "idle"
    /\ BookRequestFree
    /\ Len(bookings) + inFlightPosts < MaxBookings
    /\ nBookOps' = nBookOps + 1
    /\ IF session = NoSession
         THEN /\ jsonResponse("POST", 401, "Unauthorized", NoInfo)
              /\ UNCHANGED posts
       ELSE IF session.role = "OWNER"
         THEN /\ jsonResponse("POST", 403, "Owners cannot book their own spaces", NoInfo)
              /\ UNCHANGED posts
       ELSE IF ~createBookingSchema(body)
         THEN /\ jsonResponse("POST", 400, "<ZodError>", NoInfo)
              /\ UNCHANGED posts
       ELSE /\ posts' = [posts EXCEPT ![slot] =
                   [pc |-> "found", session |-> session,
                    parkingSpaceId |-> body.parkingSpaceId,
                    startTime |-> Date(body.startTime),
                    endTime |-> Date(body.endTime),
                    parkingSpace |-> findUniqueSpace(body.parkingSpaceId),
                    found |-> activeBookings(bookings, body.parkingSpaceId)]]
            /\ UNCHANGED bookResponse
    /\ UNCHANGED <<bookings, notifications, bookNow, verify, notBookVars>>

\* what the handler did with a request that reached the check of conflicts:
\* the range asked for, the bookings it had read, the bookings of the space
\* that were not over when it decided, and the row it created
postInfo(post, created) ==
    [parkingSpaceId |-> post.parkingSpaceId,
     startTime |-> post.startTime, endTime |-> post.endTime,
     found |-> post.found,
     existing |-> activeBookings(bookings, post.parkingSpaceId),
     rows |-> Len(bookings),
     created |-> created]

\* lines 137-228: the checks on what was read, the row created, the owner
\* notified and the response
bookingsPOSTCreate(slot) ==
    LET post == posts[slot]
        id == BookingIds[Len(bookings) + 1]
    IN  /\ post.pc = "found"
        /\ posts' = [posts EXCEPT ![slot] = BookIdle]
        /\ IF post.parkingSpace = NoSpace
             THEN /\ jsonResponse("POST", 404, "Parking space not found", NoInfo)
                  /\ UNCHANGED <<bookings, notifications>>
           ELSE IF ~post.parkingSpace.isActive
             THEN /\ jsonResponse("POST", 400, "Parking space is not available", NoInfo)
                  /\ UNCHANGED <<bookings, notifications>>
           ELSE IF post.startTime >= post.endTime
             THEN /\ jsonResponse("POST", 400, "End time must be after start time",
                                  postInfo(post, "<none>"))
                  /\ UNCHANGED <<bookings, notifications>>
           ELSE IF hasConflict(post.found, post.startTime, post.endTime)
             THEN /\ jsonResponse("POST", 409,
                                  "Parking space is already booked for this time period",
                                  postInfo(post, "<none>"))
                  /\ UNCHANGED <<bookings, notifications>>
           ELSE /\ bookings' = Append(bookings,
                       [id |-> id, userId |-> post.session.id,
                        parkingSpaceId |-> post.parkingSpaceId,
                        startTime |-> post.startTime, endTime |-> post.endTime,
                        status |-> "PENDING",
                        qrCode |-> << Text("BOOKING"), Digits(bookNow), Text("<random>") >>])
                /\ notifications' =
                       notifications \cup { <<post.parkingSpace.ownerId, "New Booking Request">> }
                /\ jsonResponse("POST", 200, "", postInfo(post, id))
        /\ UNCHANGED <<bookNow, verify, nBookOps, notBookVars>>

----------------------------------------------------------------------------
(* PUT /api/bookings/[id], part_013 lines 88-222.  What the handler reads of *)
(* the booking (its user and the owner of its space) never changes and no    *)
(* row is deleted here, so the handler is one step, taken at its update.     *)

bookingPUT(session, id, status) ==
    LET booking == findUniqueBooking(bookings, id)
        isOwner == booking.ownerId = session.id
        isUser  == booking.userId = session.id
        isAdmin == isAdminRole(session.role)
    IN  /\ BookRequestFree
        /\ nBookOps' = nBookOps + 1
        /\ IF session = NoSession
             THEN /\ jsonResponse("PUT", 401, "Unauthorized", NoInfo)
                  /\ UNCHANGED <<bookings, notifications>>
           ELSE IF booking.id = "<none>"
             THEN /\ jsonResponse("PUT", 404, "Booking not found", NoInfo)
                  /\ UNCHANGED <<bookings, notifications>>
           ELSE IF ~updateBookingSchema(status)
             THEN /\ jsonResponse("PUT", 400, "<ZodError>", NoInfo)
                  /\ UNCHANGED <<bookings, notifications>>
           ELSE IF status \notin allowedStatuses(isOwner, isUser, isAdmin)
             THEN /\ jsonResponse("PUT", 403,
                                  "You cannot change the booking status to this value", NoInfo)
                  /\ UNCHANGED <<bookings, notifications>>
           ELSE /\ bookings' = updateStatus(bookings, id, status)
                /\ notifications' =
                      IF status = "CONFIRMED" /\ isOwner
                        THEN notifications \cup { <<booking.userId, "Booking Confirmed">> }
                      ELSE IF status = "CANCELLED" /\ isUser
                        THEN notifications \cup { <<booking.ownerId, "Booking Cancelled">> }
                      ELSE IF status = "COMPLETED" /\ isOwner
                        THEN notifications \cup { <<booking.userId, "Booking Completed">> }
                      ELSE notifications
                /\ jsonResponse("PUT", 200, "", NoInfo)
        /\ UNCHANGED <<bookNow, posts, verify, notBookVars>>

----------------------------------------------------------------------------
(* POST /api/verify-qr, route.ts lines 13-302.  The handler is cut after the *)
(* query that reads the booking.                                             *)

\* what the handler did with the code: the timestamp parsed, the time of the
\* check, its verdict, and whether a booking was asked of the table
verifyInfo(timestamp, dateNow, valid, read) ==
    [timestamp |-> timestamp, dateNow |-> dateNow, valid |-> valid, read |-> read]

\* verifySpaceQR, lines 243-302: the error of the result
verifySpaceQR(parsedQR, session) ==
    LET parkingSpace == findUniqueSpace(textOf(parsedQR.id))
    IN  IF parkingSpace = NoSpace THEN "Parking space not found"
        ELSE IF parkingSpace.ownerId # session.id /\ ~isAdminRole(session.role)
          THEN "Only the space owner can verify this QR code"
        ELSE ""

\* lines 15-58 and 83-106: the session, the body and the code are checked;
\* a code of a booking has its booking read, a code of a space is answered
verifyQR(session, qrCode, action) ==
    LET parsedQR == parseQRCode(qrCode)
        valid == validateQRCodeTimestamp(parsedQR.timestamp, DefaultMaxAge, bookNow)
    IN  /\ verify.pc = "idle"
        /\ BookRequestFree
        /\ nBookOps' = nBookOps + 1
        /\ IF session = NoSession
             THEN /\ jsonResponse("verify-qr", 401, "Unauthorized", NoInfo)
                  /\ UNCHANGED verify
           ELSE IF ~verifyQRSchema(qrCode, action)
             THEN /\ jsonResponse("verify-qr", 400, "<ZodError>", NoInfo)
                  /\ UNCHANGED verify
           ELSE IF "null" \in DOMAIN parsedQR
             THEN /\ jsonResponse("verify-qr", 400, "Invalid QR code format", NoInfo)
                  /\ UNCHANGED verify
           ELSE IF ~valid
             THEN /\ jsonResponse("verify-qr", 400, "QR code has expired",
                                  verifyInfo(parsedQR.timestamp, bookNow, FALSE, FALSE))
                  /\ UNCHANGED verify
           ELSE IF parsedQR.type = "BOOKING"
             THEN /\ verify' = [pc |-> "found", session |-> session,
                                action |-> actionOf(action),
                                info |-> verifyInfo(parsedQR.timestamp, bookNow, TRUE, TRUE),
                                booking |-> findUniqueBooking(bookings, textOf(parsedQR.id))]
                  /\ UNCHANGED bookResponse
           ELSE /\ jsonResponse("verify-qr", 200, verifySpaceQR(parsedQR, session),
                                verifyInfo(parsedQR.timestamp, bookNow, TRUE, FALSE))
                /\ UNCHANGED verify
        /\ UNCHANGED <<bookings, notifications, bookNow, posts, notBookVars>>

\* verifyBookingQR, lines 108-241: the permission, the time and the status
\* read are checked, the status written, the notification created and the
\* result returned
verifyBookingQR ==
    LET booking == verify.booking
        isOwner == booking.ownerId = verify.session.id
        isBooker == booking.userId = verify.session.id
        isAdmin == isAdminRole(verify.session.role)
        answer(error) ==
            /\ jsonResponse("verify-qr", 200, error, verify.info)
            /\ UNCHANGED <<bookings, notifications>>
        write(status, userId, title) ==
            /\ bookings' = updateStatus(bookings, booking.id, status)
            /\ notifications' =
                  IF isOwner THEN notifications ELSE notifications \cup { <<userId, title>> }
            /\ jsonResponse("verify-qr", 200, "", verify.info)
    IN  /\ verify.pc = "found"
        /\ verify' = BookIdle
        /\ IF booking.id = "<none>" THEN answer("Booking not found")
           ELSE IF ~isOwner /\ ~isBooker /\ ~isAdmin
             THEN answer("You do not have permission to verify this booking")
           ELSE IF verify.action = "check-in"
             THEN IF bookNow < booking.startTime THEN answer("Too early to check in")
                  ELSE IF bookNow > booking.endTime THEN answer("Booking period has ended")
                  ELSE write("ACTIVE", booking.ownerId, "Check-in Confirmed")
           ELSE IF verify.action = "check-out"
             THEN IF booking.status # "ACTIVE"
                    THEN answer("Booking is not currently active")
                    ELSE write("COMPLETED", booking.userId, "Check-out Complete")
           ELSE answer("")
        /\ UNCHANGED <<bookNow, posts, nBookOps, notBookVars>>

----------------------------------------------------------------------------

\* the times of the day at which requests arrive: 10:30, which is within the
\* first two ranges asked for and before the third, and 12:30, which is after
\* all of them
ClockInputs == { 10 * Hour + 30 * Minute, 12 * Hour + 30 * Minute }

\* Date.now() moves on
BookTick ==
    /\ \E t \in ClockInputs :
          /\ t > bookNow
          /\ \A u \in ClockInputs : u > bookNow => t <= u
          /\ bookNow' = t
    /\ UNCHANGED <<bookings, notifications, posts, verify, bookResponse, nBookOps,
                   notBookVars>>

\* the routes before any request
BookIdleState ==
    /\ bookings = << >>
    /\ notifications = {}
    /\ bookNow = 10 * Hour + 30 * Minute
    /\ posts = [s \in PostSlots |-> BookIdle]
    /\ verify = BookIdle
    /\ bookResponse = NoResponse
    /\ nBookOps = 0
    /\ reviews = << >>
    /\ reviewPosts = [s \in PostSlots |-> BookIdle]

OthersIdle == ConfigIdleState /\ MailIdleState /\ BookIdleState

NextBook ==
    \/ \E slot \in PostSlots, session \in PostSessions, body \in BodyInputs :
          bookingsPOST(slot, session, body)
    \/ \E slot \in PostSlots : bookingsPOSTCreate(slot)
    \/ \E session \in BookSessions, id \in BookingIdInputs, status \in StatusInputs :
          bookingPUT(session, id, status)
    \/ \E session \in BookSessions, qrCode \in QRInputs(bookNow), action \in ActionInputs :
          verifyQR(session, qrCode, action)
    \/ verifyBookingQR
    \/ BookTick

----------------------------------------------------------------------------
(* POST /api/reviews, src/unnamed/part_009 lines 114-250.  The handler is    *)
(* cut after the query that reads the booking with its reviews.  The review  *)
(* table is a plain table: a booking has many reviews and the table itself   *)
(* keeps no two rows apart.                                                  *)

\* the bodies sent: a rating for a booking that may exist, for one that does
\* not, for an id that is no cuid, and a rating out of range
ReviewBodyInputs ==
    { [bookingId |-> id, rating |-> 5] : id \in BookingIdInputs \cup { "<no cuid>" } }
    \cup { [bookingId |-> "b1", rating |-> 0] }

\* createReviewSchema.parse(body) succeeds, lines 7-11
createReviewSchema(body) ==
    /\ isCuid(body.bookingId)
    /\ body.rating >= 1 /\ body.rating <= 5

\* include: { reviews: true }
reviewsOf(rows, bookingId) ==
    { rows[i] : i \in { j \in DOMAIN rows : rows[j].bookingId = bookingId } }

\* prisma.review.create({ data }): a row is added to the table; madeWhen is
\* the status that the booking has in the table at this moment
createReview(rows, bookingId, reviewerId, revieweeId, rating) ==
    Append(rows, [bookingId |-> bookingId, reviewerId |-> reviewerId,
                  revieweeId |-> revieweeId, rating |-> rating,
                  madeWhen |-> findUniqueBooking(bookings, bookingId).status])

\* lines 116-136: the session and the body are checked and the booking is
\* read with its reviews
reviewsPOST(slot, session, body) ==
    /\ reviewPosts[slot].pc = "idle"
    /\ \A s \in PostSlots : s < slot => reviewPosts[s].pc # "idle"
    /\ BookRequestFree
    /\ nBookOps' = nBookOps + 1
    /\ IF session = NoSession
         THEN /\ jsonResponse("reviews", 401, "Unauthorized", NoInfo)
              /\ UNCHANGED reviewPosts
       ELSE IF ~createReviewSchema(body)
         THEN /\ jsonResponse("reviews", 400, "<ZodError>", NoInfo)
              /\ UNCHANGED reviewPosts
       ELSE /\ reviewPosts' = [reviewPosts EXCEPT ![slot] =
                   [pc |-> "found", session |-> session, rating |-> body.rating,
                    booking |-> findUniqueBooking(bookings, body.bookingId),
                    reviews |-> reviewsOf(reviews, body.bookingId)]]
            /\ UNCHANGED bookResponse
    /\ UNCHANGED <<bookings, notifications, bookNow, posts, verify, reviews, notReviewVars>>

\* lines 138-235: the checks on what was read, the review created, the
\* reviewee notified and the response
reviewsPOSTCreate(slot) ==
    LET post == reviewPosts[slot]
        booking == post.booking
        isReviewer == booking.userId = post.session.id
        isOwner == booking.ownerId = post.session.id
        isAdmin == isAdminRole(post.session.role)
        revieweeId == IF isReviewer THEN booking.ownerId ELSE booking.userId
        answer(status, error) ==
            /\ jsonResponse("reviews", status, error, NoInfo)
            /\ UNCHANGED <<reviews, notifications>>
    IN  /\ post.pc = "found"
        /\ reviewPosts' = [reviewPosts EXCEPT ![slot] = BookIdle]
        /\ IF booking.id = "<none>" THEN answer(404, "Booking not found")
           ELSE IF ~isReviewer /\ ~isOwner /\ ~isAdmin
             THEN answer(403, "You can only review bookings you are involved in")
           ELSE IF booking.status # "COMPLETED"
             THEN answer(400, "You can only review completed bookings")
           ELSE IF \E review \in post.reviews : review.reviewerId = post.session.id
             THEN answer(409, "You have already reviewed this booking")
           ELSE /\ reviews' = createReview(reviews, booking.id, post.session.id,
                                           revieweeId, post.rating)
                /\ notifications' = notifications \cup { <<revieweeId, "New Review">> }
                /\ jsonResponse("reviews", 200, "", NoInfo)
        /\ UNCHANGED <<bookings, bookNow, posts, verify, nBookOps, notReviewVars>>

NextReview ==
    \/ \E slot \in PostSlots, session \in BookSessions, body \in ReviewBodyInputs :
          reviewsPOST(slot, session, body)
    \/ \E slot \in PostSlots : reviewsPOSTCreate(slot)
    \/ \E session \in BookSessions, id \in BookingIdInputs, status \in StatusInputs :
          bookingPUT(session, id, status)

----------------------------------------------------------------------------
(* The flag specification *)

SeedRowsA ==
    { Row(TRUE, 100, NoConditions, Production),
      Row(FALSE, 0, NoConditions, Production),
      Row(TRUE, 50, Malformed, Production) }

SeedRowsAB == { Row(FALSE, 100, NoConditions, Production) }

EvalIdle == [pc |-> "idle"]

EvalInit == evalPrev = EvalIdle /\ evalCur = EvalIdle

\* the rate limiter before any request, for the specifications that leave it alone
RateIdle ==
    /\ redis = "null"
    /\ systemConfig = [enableRateLimiting |-> TRUE, maxRequestsPerMinute |-> 60]
    /\ zsets = [k \in RateKeys |-> {}]
    /\ expiry = [k \in RateKeys |-> 0]
    /\ nowMs = 0
    /\ history = << >>
    /\ last = [pc |-> "idle"]
    /\ apiRateLimitLog = 0

Init ==
    /\ featureFlag \in { [k \in FlagKeys |-> IF k = KeyA THEN a ELSE ab] :
                            a \in SeedRowsA \cup {Null}, ab \in SeedRowsAB \cup {Null} }
    /\ cache = {}
    /\ now = 0
    /\ calls = [s \in Slots |-> IdleCall]
    /\ returned = IdleCall
    /\ admin = [pc |-> "idle"]
    /\ rolledBack = [e \in Environments |-> FALSE]
    /\ nCalls = 0
    /\ nWrites = 0
    /\ EvalInit
    /\ RateIdle
    /\ OthersIdle

Next ==
    \/ \E s \in Slots, in \in CallInputs : isEnabledStart(s, in[1], in[2], in[3])
    \/ \E s \in Slots : isEnabledFetch(s)
    \/ \E s \in Slots : isEnabledResume(s)
    \/ \E s \in Slots : isEnabledFinish(s)
    \/ \E k \in FlagKeys, b \in BOOLEAN : toggleFlag(k, b)
    \/ \E k \in FlagKeys, p \in RolloutInputs : updateRolloutPercentage(k, p)
    \/ \E k \in FlagKeys, c \in ConditionInputs : updateConditions(k, c)
    \/ \E k \in FlagKeys, b \in BOOLEAN, p \in CreateRollouts, c \in CreateConditions,
          e \in Environments : createFlag(k, b, p, c, e)
    \/ \E e \in Environments : emergencyRollback(e)
    \/ adminReturn
    \/ \E k \in FlagKeys, p \in RolloutInputs, a \in BOOLEAN : handleRollout(k, p, a)
    \/ \E k \in FlagKeys, b \in BOOLEAN, p \in CreateRollouts, c \in CreateConditions,
          a \in BOOLEAN : handleCreate(k, b, p, c, a)
    \/ \E e \in Environments, a \in BOOLEAN : handleEmergencyRollback(e, a)
    \/ Tick

Spec == Init /\ [][Next]_vars

----------------------------------------------------------------------------
(* Claims about isEnabled and the administrative operations *)

\* a call returned a value computed by isEnabled (the lookup did not throw)
Answered == returned.pc = "done" /\ ~returned.threw

\* the stored flag was the same row from the start of the returned call to its end
\* and belongs to the environment the call named
Settled ==
    /\ Answered
    /\ returned.stable
    /\ returned.start # Null
    /\ returned.start.environment = returned.environment

\* C1: a call that starts while the stored flag is disabled, with the flag not
\* enabled before the call returns, returns false.
C1_DisabledNeverActive ==
    (returned.pc = "done" /\ returned.start # Null /\ ~returned.enabledSeen)
        => ~returned.isEnabled

\* C2: a call that starts after emergencyRollback for its environment has
\* completed, with no flag of that environment enabled since, returns false.
C2_RollbackThenFalse ==
    (returned.pc = "done" /\ returned.afterRollback) => ~returned.isEnabled

\* the cache entries of flag k: those stored under a key getCacheKey builds for k
EntriesOf(c, k) ==
    { e \in c : \E in \in CallInputs : in[1] = k /\ e.key = getCacheKey(k, in[2], in[3]) }

\* C3: when toggleFlag, updateRolloutPercentage, updateConditions or createFlag
\* for flag k completes, the cache holds no entry for k.
C3_WriteLeavesNoEntry ==
    [][(admin.pc = "written" /\ admin'.pc = "done"
          /\ admin.op \in {"toggle", "rollout", "conditions", "create"})
        => EntriesOf(cache', admin.flagKey) = {}]_vars

\* C5: for an enabled flag with rollout p < 100, a caller whose bucket is above
\* p gets false, whatever the conditions.
C5_BucketAboveRolloutIsFalse ==
    (Settled /\ returned.start.enabled /\ returned.start.rolloutPercentage < 100
        /\ userPercentage(returned.context) > returned.start.rolloutPercentage)
        => ~returned.isEnabled

\* C7: every stored flag has a rollout percentage between 0 and 100.
C7_RolloutInRange ==
    \A k \in FlagKeys :
        featureFlag[k] # Null =>
            (featureFlag[k].rolloutPercentage >= 0 /\ featureFlag[k].rolloutPercentage <= 100)

\* C8: for an enabled flag whose stored conditions do not parse, isEnabled is
\* true exactly when the rollout is 100 or the caller's bucket is within it.
C8_MalformedAsNoConditions ==
    (Settled /\ returned.start.enabled /\ returned.start.conditions = Malformed)
        => (returned.isEnabled <=>
              (returned.start.rolloutPercentage = 100
                 \/ userPercentage(returned.context) <= returned.start.rolloutPercentage))

----------------------------------------------------------------------------
(* Further claims about isEnabled *)

\* lines 43-64 without the cache: the value computed from the stored row
Uncached(flagKey, context, environment) ==
    LET flag == featureFlag[flagKey]
    IN  IF flag = Null \/ flag.environment # environment
          THEN FALSE
          ELSE evaluateFlag(flag, context)

\* C22: while the stored flags are what they were at the start, a call that
\* returns a value returns the value that the evaluation of the stored flag
\* for its context gives, whatever calls came before it.
C22_CacheIsTransparent ==
    (Answered /\ nWrites = 0)
        => returned.isEnabled
              = Uncached(returned.flagKey, returned.context, returned.environment)

----------------------------------------------------------------------------
(* Uncached evaluation: lines 59-64 applied to a fetched flag and a context, *)
(* two evaluations kept side by side.                                        *)

SuperAdmin == <<"SUPER_ADMIN">>

\* {type: "role", operator: "in", value: ["ADMIN", "SUPER_ADMIN"]}
RoleInAdmins ==
    [type |-> "role", operator |-> "in", value |-> [arr |-> <<Admin, SuperAdmin>>]]

\* the same leaf with the field it reads
RoleInAdminsOfRole ==
    [type |-> "role", field |-> "role", operator |-> "in",
     value |-> [arr |-> <<Admin, SuperAdmin>>]]

\* {type: "email_domain", field: "email", operator: "equals", value: "x.com"}
DomainIsX ==
    [type |-> "email_domain", field |-> "email", operator |-> "equals",
     value |-> [str |-> <<"x.com">>]]

EvalConditions ==
    { NoConditions, Malformed, stringify(RoleInAdmins), stringify(RoleInAdminsOfRole),
      stringify([operator |-> "or", rules |-> <<RoleInAdminsOfRole, DomainIsX>>]),
      stringify([rules |-> <<RoleInAdminsOfRole, DomainIsX>>]) }

EvalFlags ==
    { Row(TRUE, p, c, Production) : p \in {0, 50, 100}, c \in EvalConditions }
      \cup { Row(FALSE, 100, NoConditions, Production) }

EvalContexts ==
    { [userId |-> <<"x">>, role |-> Admin],
      [userId |-> <<"x">>, email |-> <<"a", "@", "x.com">>, role |-> User],
      [userId |-> <<"b", "_", "x">>, role |-> User],
      [userId |-> << >>, email |-> <<"b", "@", "y.org">>, role |-> Admin],
      [email |-> <<"b", "@", "y.org">>, role |-> SuperAdmin],
      [email |-> <<"a", "@", "x.com">>, role |-> User],
      [role |-> User],
      [role |-> Admin] }

evaluate(flag, context) ==
    /\ evalPrev' = evalCur
    /\ evalCur' = [pc |-> "done", flag |-> flag, context |-> context,
                   userPercentage |-> userPercentage(context),
                   isEnabled |-> evaluateFlag(flag, context)]
    /\ UNCHANGED <<flagVars, rateVars, otherVars>>

FlagsIdle ==
    /\ featureFlag = [k \in FlagKeys |-> Null]
    /\ cache = {}
    /\ now = 0
    /\ calls = [s \in Slots |-> IdleCall]
    /\ returned = IdleCall
    /\ admin = [pc |-> "idle"]
    /\ rolledBack = [e \in Environments |-> FALSE]
    /\ nCalls = 0
    /\ nWrites = 0

InitEval == FlagsIdle /\ EvalInit /\ RateIdle /\ OthersIdle

NextEval == \E flag \in EvalFlags, context \in EvalContexts : evaluate(flag, context)

SpecEval == InitEval /\ [][NextEval]_vars

\* C4: an enabled flag with rollout 100 and conditions
\* {type:"role", operator:"in", value:["ADMIN","SUPER_ADMIN"]} is active exactly
\* for the contexts whose role is one of the listed values.
C4_RoleInAdmitsMembersOnly ==
    (evalCur.pc = "done" /\ evalCur.flag = Row(TRUE, 100, stringify(RoleInAdmins), Production))
        => (evalCur.isEnabled <=>
              contextValue(evalCur.context, "role") \in {Admin, SuperAdmin})

\* the caller's identifier as the contract names it: the user id if there is
\* one, else the email, else "anonymous"
StatedIdentifier(context) ==
    IF Has(context, "userId") /\ context.userId # << >> THEN context.userId
    ELSE IF Has(context, "email") /\ context.email # << >> THEN context.email
    ELSE <<"anonymous">>

\* C6: two evaluations for the same identifier get the same bucket, and every
\* bucket is an integer from 1 to 100.
C6_BucketOfIdentifier ==
    /\ evalCur.pc = "done" =>
          (evalCur.userPercentage \in Int
             /\ evalCur.userPercentage >= 1 /\ evalCur.userPercentage <= 100)
    /\ (evalCur.pc = "done" /\ evalPrev.pc = "done"
          /\ StatedIdentifier(evalCur.context) = StatedIdentifier(evalPrev.context))
        => evalCur.userPercentage = evalPrev.userPercentage

\* two evaluations of one user id, one of them with an email as well, and one
\* evaluation without user id and email
C6_Witness ==
    /\ evalCur.pc = "done" /\ evalPrev.pc = "done"
    /\ evalCur.context # evalPrev.context
    /\ Has(evalCur.context, "email") /\ ~Has(evalPrev.context, "email")
    /\ StatedIdentifier(evalCur.context) = StatedIdentifier(evalPrev.context)
    /\ evalCur.flag.rolloutPercentage < 100

----------------------------------------------------------------------------
(* Rule trees: evaluateRule applied to trees of nodes with lists of rules,  *)
(* up to two levels of nodes above the leaves.                              *)

\* the sequences of at most two members of S
UpToTwo(S) == { << >> } \cup { <<a>> : a \in S } \cup { <<a, b>> : a \in S, b \in S }

NoOperator == "<undefined>"

\* {operator, rules} or, without operator, {rules}
RuleNode(operator, rules) ==
    IF operator = NoOperator
      THEN [rules |-> rules]
      ELSE [operator |-> operator, rules |-> rules]

RuleLeaves == { RoleInAdminsOfRole, DomainIsX }

RuleNodes1 ==
    { RuleNode(operator, rules) :
        operator \in {"and", "or", NoOperator}, rules \in UpToTwo(RuleLeaves) }

RuleNodes2 ==
    { RuleNode(operator, rules) :
        operator \in {"and", "or", NoOperator},
        rules \in UpToTwo(RuleLeaves \cup RuleNodes1) }

RuleTrees == RuleNodes1 \cup RuleNodes2

RuleContexts ==
    { [email |-> <<"a", "@", "x.com">>, role |-> Admin],
      [email |-> <<"a", "@", "x.com">>, role |-> User],
      [email |-> <<"b", "@", "y.org">>, role |-> Admin],
      [email |-> <<"b", "@", "y.org">>, role |-> User] }

\* a tree and a context are given
InitRule ==
    /\ FlagsIdle /\ RateIdle /\ OthersIdle
    /\ evalPrev = EvalIdle
    /\ evalCur \in { [pc |-> "given", rule |-> rule, context |-> context, result |-> FALSE] :
                        rule \in RuleTrees, context \in RuleContexts }

\* this.evaluateRule(conditions, context) of the tree given
evaluateTree ==
    /\ evalCur.pc = "given"
    /\ evalCur' = [evalCur EXCEPT !.pc = "rule",
                                  !.result = evaluateRule(evalCur.rule, evalCur.context)]
    /\ UNCHANGED <<evalPrev, flagVars, rateVars, otherVars>>

NextRule == evaluateTree

SpecRule == InitRule /\ [][NextRule]_vars

\* what a tree says: a leaf is its condition, a node with operator "and" or
\* none is the conjunction of its children, a node with "or" their disjunction
RECURSIVE Meaning(_, _)
Meaning(rule, context) ==
    IF ~Has(rule, "rules") THEN evaluateCondition(rule, context)
    ELSE IF Has(rule, "operator") /\ rule.operator = "or"
      THEN \E i \in DOMAIN rule.rules : Meaning(rule.rules[i], context)
      ELSE \A i \in DOMAIN rule.rules : Meaning(rule.rules[i], context)

\* C23: a node with a list of rules evaluates to true under "and", and
\* without operator, exactly when every child does, and under "or" exactly
\* when some child does, at every depth.
C23_AndOrAtEveryNode ==
    evalCur.pc = "rule" => evalCur.result = Meaning(evalCur.rule, evalCur.context)

\* an "or" node over an "and" node that is false and a leaf that is true
C23_Witness ==
    /\ evalCur.pc = "rule"
    /\ evalCur.result
    /\ Has(evalCur.rule, "operator") /\ evalCur.rule.operator = "or"
    /\ Len(evalCur.rule.rules) = 2
    /\ Has(evalCur.rule.rules[1], "rules")
    /\ ~Has(evalCur.rule.rules[1], "operator")
    /\ Len(evalCur.rule.rules[1].rules) = 2
    /\ ~Meaning(evalCur.rule.rules[1], evalCur.context)
    /\ ~Has(evalCur.rule.rules[2], "rules")

----------------------------------------------------------------------------
(* The commission split: calculatePlatformFee (src/unnamed/part_012).  A JS  *)
(* number is an IEEE 754 double: zero, or m * 2^e with m a natural number of *)
(* 53 binary digits.  Every operation rounds its exact result to the nearest *)
(* double, ties to the even one.  The numbers here are neither negative nor  *)
(* near the ends of the range of the exponent.                               *)

Precision == 53

\* a natural number of any size is the sequence of its digits to the base
\* 2^13, from the lowest
Width == 13
Base == 2^Width

RECURSIVE Limbs(_)
Limbs(n) == IF n = 0 THEN << >> ELSE << n % Base >> \o Limbs(n \div Base)

\* the digits without zeros at the top
RECURSIVE Trim(_)
Trim(b) ==
    IF b = << >> THEN << >>
    ELSE IF b[Len(b)] = 0 THEN Trim(SubSeq(b, 1, Len(b) - 1))
    ELSE b

At(b, i) == IF i \in DOMAIN b THEN b[i] ELSE 0

\* the number whose digit of weight Base^(i-1) is count[i], which may be
\* above the base
RECURSIVE Carried(_, _, _)
Carried(count, i, carry) ==
    IF i > Len(count) THEN Limbs(carry)
    ELSE LET s == count[i] + carry
         IN  << s % Base >> \o Carried(count, i + 1, s \div Base)

\* a + b
BAdd(a, b) ==
    Carried([i \in 1..(IF Len(a) > Len(b) THEN Len(a) ELSE Len(b)) |-> At(a, i) + At(b, i)],
            1, 0)

RECURSIVE Borrowed(_, _, _, _)
Borrowed(a, b, i, borrow) ==
    IF i > Len(a) THEN << >>
    ELSE LET d == a[i] - At(b, i) - borrow
         IN  << d % Base >> \o Borrowed(a, b, i + 1, IF d < 0 THEN 1 ELSE 0)

\* a - b for a >= b
BSub(a, b) == Trim(Borrowed(a, b, 1, 0))

\* the sum of the products of the digits of a and b of weight Base^(k-1)
RECURSIVE Dot(_, _, _, _)
Dot(a, b, k, i) ==
    IF i > Len(a) THEN 0
    ELSE (IF k + 1 - i \in DOMAIN b THEN a[i] * b[k + 1 - i] ELSE 0) + Dot(a, b, k, i + 1)

\* a * b
BMul(a, b) ==
    IF a = << >> \/ b = << >> THEN << >>
    ELSE Trim(Carried([k \in 1..(Len(a) + Len(b) - 1) |-> Dot(a, b, k, 1)], 1, 0))

\* the quotient and the remainder of a by a number d up to the base
RECURSIVE BDivRem(_, _)
BDivRem(a, d) ==
    IF a = << >> THEN [q |-> << >>, r |-> 0]
    ELSE LET high == BDivRem(Tail(a), d)
             n == Base * high.r + Head(a)
         IN  [q |-> << n \div d >> \o high.q, r |-> n % d]

\* b * 2^k, and b divided by 2^k without its remainder
BShl(b, k) ==
    IF b = << >> THEN << >>
    ELSE [i \in 1..(k \div Width) |-> 0] \o BMul(b, << 2^(k % Width) >>)

BShr(b, k) ==
    IF k \div Width >= Len(b) THEN << >>
    ELSE Trim(BDivRem(SubSeq(b, k \div Width + 1, Len(b)), 2^(k % Width)).q)

\* the binary digit of b of weight 2^(i-1)
Bit(b, i) == (At(b, (i - 1) \div Width + 1) \div 2^((i - 1) % Width)) % 2

\* the number of binary digits of b, which is not zero and has no zero at
\* the top
BitLength(b) ==
    (Len(b) - 1) * Width
        + CHOOSE j \in 1..Width : 2^(j - 1) <= b[Len(b)] /\ b[Len(b)] < 2^j

Zero == [m |-> << >>, e |-> 0]

\* the double nearest to M * 2^E, or to a little more than it when `more`
\* (less than 2^E more, and M then has more than 53 binary digits)
nearest(M, E, more) ==
    LET b == Trim(M)
        k == BitLength(b) - Precision
    IN  IF b = << >> THEN Zero
        ELSE IF k <= 0 THEN [m |-> BShl(b, 0 - k), e |-> E + k]
        ELSE LET q == BShr(b, k)
                 rest == more \/ \E i \in 1..(k - 1) : Bit(b, i) = 1
                 up == Bit(b, k) = 1 /\ (rest \/ Bit(q, 1) = 1)
                 rounded == IF up THEN BAdd(q, << 1 >>) ELSE q
             IN  IF BitLength(rounded) > Precision
                   THEN [m |-> BShr(rounded, 1), e |-> E + k + 1]
                   ELSE [m |-> rounded, e |-> E + k]

\* the double of a natural number below 2^31
double(n) == nearest(Limbs(n), 0, FALSE)

\* x * y
times(x, y) ==
    IF x = Zero \/ y = Zero THEN Zero ELSE nearest(BMul(x.m, y.m), x.e + y.e, FALSE)

\* x / d for a natural number d from 1 to 1000, which is a double
over(x, d) ==
    LET division == BDivRem(BShl(x.m, Width), d)
    IN  IF x = Zero THEN Zero
        ELSE nearest(Trim(division.q), x.e - Width, division.r # 0)

\* x + y
plus(x, y) ==
    IF x = Zero THEN y
    ELSE IF y = Zero THEN x
    ELSE LET e == IF x.e < y.e THEN x.e ELSE y.e
         IN  nearest(BAdd(BShl(x.m, x.e - e), BShl(y.m, y.e - e)), e, FALSE)

\* x - y for x >= y
minus(x, y) ==
    IF y = Zero THEN x
    ELSE LET e == IF x.e < y.e THEN x.e ELSE y.e
         IN  nearest(BSub(BShl(x.m, x.e - e), BShl(y.m, y.e - e)), e, FALSE)

\* the number that JSON.parse gives for an amount written with two decimal
\* places: the double nearest to cents / 100
amountOf(cents) == over(double(cents), 100)

\* Number(value) of a number
Number(value) == double(value.num)

\* what getSystemConfig gave: no platformCommissionPercent, or one of a value
commissionConfigs(percent) ==
    [k \in {"platformCommissionPercent"} |->
        [value |-> Num(percent), type |-> "number", category |-> "financial"]]

NoConfigs == [k \in {} |-> Num(0)]

\* amounts in cents: from one cent to the 100.00 of the README
CentInputs == { 1, 5, 85, 151, 300, 333, 1000, 2550, 9999, 10000 }

\* the commission configured: none, the 10 of the defaults, and others that
\* the settings allow
CommissionInputs == { NoConfigs } \cup { commissionConfigs(p) : p \in { 10, 15, 5, 50 } }

\* calculatePlatformFee(amount), part_012 lines 258-287, with what
\* getSystemConfig gives to getConfigValue, or with getConfigValue throwing
calculatePlatformFee(amount, configs, thrown) ==
    IF ~thrown
      THEN LET commissionPercent == valueOf(configs, "platformCommissionPercent", Num(10))
               commissionDecimal == over(Number(commissionPercent), 100)
               platformFee == times(amount, commissionDecimal)
               ownerAmount == minus(amount, platformFee)
           IN  [platformFee |-> platformFee,
                ownerAmount |-> ownerAmount,
                commissionPercent |-> Number(commissionPercent)]
      ELSE LET commissionPercent == double(10)
               platformFee == times(amount, over(commissionPercent, 100))
           IN  [platformFee |-> platformFee,
                ownerAmount |-> minus(amount, platformFee),
                commissionPercent |-> commissionPercent]

InitFee ==
    /\ FlagsIdle /\ RateIdle /\ OthersIdle
    /\ evalPrev = EvalIdle
    /\ evalCur \in { [pc |-> "given", cents |-> cents, configs |-> configs,
                      thrown |-> thrown, result |-> Zero] :
                       cents \in CentInputs, configs \in CommissionInputs,
                       thrown \in BOOLEAN }

\* calculatePlatformFee is applied to the amount
calculateFee ==
    /\ evalCur.pc = "given"
    /\ evalCur' = [evalCur EXCEPT
                      !.pc = "fee",
                      !.result = calculatePlatformFee(amountOf(evalCur.cents),
                                                      evalCur.configs, evalCur.thrown)]
    /\ UNCHANGED <<evalPrev, flagVars, rateVars, otherVars>>

NextFee == calculateFee

SpecFee == InitFee /\ [][NextFee]_vars

\* the commission that applies: the one configured, else 10
percentOf(configs, thrown) ==
    IF ~thrown /\ "platformCommissionPercent" \in DOMAIN configs
      THEN configs["platformCommissionPercent"].value.num
      ELSE 10

\* C21: calculatePlatformFee(amount) returns platformFee = amount *
\* commissionPercent / 100 and ownerAmount = amount - platformFee, with
\* platformFee + ownerAmount = amount, and commissionPercent the configured
\* platformCommissionPercent, else 10.
C21_FeeAndOwnerAmountMakeAmount ==
    evalCur.pc = "fee" =>
        LET amount == amountOf(evalCur.cents)
            percent == double(percentOf(evalCur.configs, evalCur.thrown))
            result == evalCur.result
        IN  /\ result.commissionPercent = percent
            /\ result.platformFee = over(times(amount, percent), 100)
            /\ result.ownerAmount = minus(amount, result.platformFee)
            /\ plus(result.platformFee, result.ownerAmount) = amount

----------------------------------------------------------------------------
(* The rate limiter: checkRateLimit and the middleware.  One call is one    *)
(* step; readOk, storeOk and logOk say whether the configuration read, the  *)
(* pipeline of the external store and the write of the violation row        *)
(* succeed.                                                                 *)

\* the members left after zRemRangeByScore(key, 0, max)
zRemRangeByScore(members, max) == { m \in members : ~(m.score >= 0 /\ m.score <= max) }

\* checkRedisRateLimit, lines 116-139: what the pipeline does to the key and
\* the count it reports (results[1][1], the reply of zCard)
redisPipeline(key, config) ==
    LET nowS   == ceilDiv(nowMs, 1000)
        window == ceilDiv(config.windowMs, 1000)
        kept   == zRemRangeByScore(zsets[key], nowS - window)
    IN  [currentCount |-> Cardinality(kept),
         members |-> kept \cup { [score |-> nowS, member |-> Len(history) + 1] },
         expireAt |-> nowMs + (window + 1) * 1000]

\* lines 138-153 and 173-187
limitResult(currentCount, config) ==
    [allowed |-> currentCount <= config.maxRequests,
     remaining |-> IF config.maxRequests - currentCount > 0
                     THEN config.maxRequests - currentCount ELSE 0,
     limit |-> config.maxRequests]

\* lines 64-70
disabledResult(config) ==
    [allowed |-> TRUE, remaining |-> config.maxRequests, limit |-> config.maxRequests]

failClosedResult ==
    [allowed |-> FALSE, remaining |-> 0, limit |-> defaultConfig.maxRequests]

\* lines 80-89: the catch block of checkRateLimit
failOpenResult ==
    [allowed |-> TRUE, remaining |-> defaultConfig.maxRequests,
     limit |-> defaultConfig.maxRequests]

\* Math.random() in thousandths: the least, a middle and the greatest value
RandomInputs == {0, 500, 999}

\* the simulated count with 1.8 for 0.8
simulatedCountOver(random, config) == (random * config.maxRequests * 18) \div 10000 + 1

\* Math.floor(Math.random() * maxRequests * 0.8) + 1
simulatedCount(random, config) == (random * config.maxRequests * 8) \div 10000 + 1

simulatedCounts(config) == { simulatedCount(r, config) : r \in RandomInputs }

\* the path a check takes
pathOf(config, storeOk) ==
    IF ~config.enabled THEN "disabled"
    ELSE IF redis = "null" THEN "memory"
    ELSE IF storeOk THEN "redis" ELSE "failed"

\* the outcomes the store and the random number can have on a path
StoreOutcomes(config) == IF config.enabled /\ redis = "client" THEN BOOLEAN ELSE {TRUE}

SimulatedOutcomes(config) ==
    IF config.enabled /\ redis = "null" THEN simulatedCounts(config) ELSE {0}

\* logRateLimitViolation, lines 196-211: the row is written or the failure is swallowed
LogOutcomes(result) == IF result.allowed THEN {TRUE} ELSE BOOLEAN

\* the result of checkRedisRateLimit or checkInMemoryRateLimit, or of the catch
\* block when the store failed
resultOf(path, currentCount, config) ==
    CASE path = "disabled" -> disabledResult(config)
      [] path = "failed"   -> failOpenResult
      [] OTHER             -> limitResult(currentCount, config)

\* what the middleware answers for a result (lines 286-295)
respond(result) == IF result.allowed THEN "next" ELSE "429"

\* checkRateLimit(identifier, endpoint, customConfig) as called by `via`
check(via, identifier, endpoint, customConfig, readOk) ==
    LET config == getConfig(customConfig, readOk)
        key    == rateKey(identifier, endpoint)
        piped  == redisPipeline(key, config)
    IN  /\ Len(history) < MaxRequests
        /\ \E storeOk \in StoreOutcomes(config), simulated \in SimulatedOutcomes(config) :
             LET path   == pathOf(config, storeOk)
                 count  == IF path = "redis" THEN piped.currentCount ELSE simulated
                 result == resultOf(path, count, config)
             IN  /\ IF path = "redis"
                      THEN /\ zsets' = [zsets EXCEPT ![key] = piped.members]
                           /\ expiry' = [expiry EXCEPT ![key] = piped.expireAt]
                      ELSE UNCHANGED <<zsets, expiry>>
                 /\ history' = Append(history,
                       [key |-> key, t |-> nowMs, path |-> path,
                        allowed |-> result.allowed,
                        maxRequests |-> config.maxRequests, windowMs |-> config.windowMs])
                 /\ \E logOk \in LogOutcomes(result) :
                      /\ apiRateLimitLog' = IF ~result.allowed /\ logOk
                                              THEN apiRateLimitLog + 1 ELSE apiRateLimitLog
                      /\ last' = [pc |-> "done", via |-> via,
                                  customConfig |-> customConfig,
                                  readOk |-> readOk, logOk |-> logOk, path |-> path,
                                  config |-> config, currentCount |-> count,
                                  result |-> result,
                                  response |-> IF via = "middleware" THEN respond(result)
                                                                     ELSE "none"]
        /\ UNCHANGED <<redis, systemConfig, nowMs, flagVars, evalVars, otherVars>>

checkRateLimit(identifier, endpoint, customConfig, readOk) ==
    check("checkRateLimit", identifier, endpoint, customConfig, readOk)

\* lines 263-302: the middleware reads the configuration, returns next() when
\* rate limiting is off, and else hands the configuration it read to
\* checkRateLimit as the custom configuration
middleware(identifier, endpoint, customConfig, readOk) ==
    LET config == getConfig(customConfig, readOk)
    IN  IF ~config.enabled
          THEN /\ Len(history) < MaxRequests
               /\ history' = Append(history,
                     [key |-> rateKey(identifier, endpoint), t |-> nowMs,
                      path |-> "disabled", allowed |-> TRUE,
                      maxRequests |-> config.maxRequests, windowMs |-> config.windowMs])
               /\ last' = [pc |-> "done", via |-> "middleware",
                           customConfig |-> customConfig, readOk |-> readOk,
                           logOk |-> TRUE, path |-> "disabled", config |-> config,
                           currentCount |-> 0, result |-> disabledResult(config),
                           response |-> "next"]
               /\ UNCHANGED <<redis, systemConfig, zsets, expiry, nowMs, apiRateLimitLog,
                              flagVars, evalVars, otherVars>>
          ELSE \E readAgain \in BOOLEAN :
                  /\ getConfig(config, readAgain) = config
                  /\ check("middleware", identifier, endpoint, customConfig, readOk)

\* time passes; the external store drops the keys whose expiry has come
Advance(d) ==
    /\ nowMs + d <= MaxNowMs
    /\ nowMs' = nowMs + d
    /\ zsets' = [k \in RateKeys |->
                    IF expiry[k] > 0 /\ expiry[k] <= nowMs + d THEN {} ELSE zsets[k]]
    /\ expiry' = [k \in RateKeys |->
                    IF expiry[k] > 0 /\ expiry[k] <= nowMs + d THEN 0 ELSE expiry[k]]
    /\ UNCHANGED <<redis, systemConfig, history, last, apiRateLimitLog, flagVars, evalVars,
                   otherVars>>

InitRate ==
    /\ FlagsIdle
    /\ EvalInit
    /\ OthersIdle
    /\ redis \in {"client", "null"}
    /\ systemConfig \in StoredConfigs
    /\ zsets = [k \in RateKeys |-> {}]
    /\ expiry = [k \in RateKeys |-> 0]
    /\ nowMs = 0
    /\ history = << >>
    /\ last = [pc |-> "idle"]
    /\ apiRateLimitLog = 0

NextRate ==
    \/ \E i \in Identifiers, e \in Endpoints, c \in CustomConfigs, readOk \in BOOLEAN :
          checkRateLimit(i, e, c, readOk)
    \/ \E i \in Identifiers, e \in Endpoints, c \in CustomConfigs, readOk \in BOOLEAN :
          middleware(i, e, c, readOk)
    \/ Advance(1000)

SpecRate == InitRate /\ [][NextRate]_vars

----------------------------------------------------------------------------
(* The configuration manager's specification and claims *)

InitConfigSpec ==
    FlagsIdle /\ EvalInit /\ RateIdle /\ InitConfig /\ MailIdleState /\ BookIdleState

SpecConfig == InitConfigSpec /\ [][NextConfig]_vars

ConfigAnswered == configReturned.pc = "done"

\* C11: a getConfigValue(key, default, E) that starts after an updateConfig of
\* key to v in E has completed, with no later write of the key and a store
\* that can be read, returns v.
C11_ReadAfterUpdate ==
    (ConfigAnswered /\ configReturned.via = "getConfigValue"
       /\ configReturned.expect # Unset /\ configReturned.stable
       /\ ~configReturned.readFailed /\ ~configReturned.expect.isSecret)
      => configReturned.value = configReturned.expect.value

\* C12: every entry that getSystemConfig returns with isSecret set carries
\* the mask as its value, whatever its type.
C12_SecretsMasked ==
    ConfigAnswered =>
      \A k \in DOMAIN configReturned.configs :
         LET entry == configReturned.configs[k]
         IN  ("isSecret" \in DOMAIN entry /\ entry.isSecret) => entry.value = Mask

\* the step is the start of operation op
ConfigStarts(op) == configWrite'.n # configWrite.n /\ configWrite'.op = op

\* C13: updateMultipleConfigs changes all rows of its batch or none: when an
\* upsert fails the table and the cache stay as they are and the error is
\* raised; when none fails the table holds every update of the batch.
C13_BatchAllOrNothing ==
    [][ConfigStarts("updateMultipleConfigs") =>
          IF configWrite'.pc = "done"
            THEN /\ configWrite'.error
                 /\ configRows' = configRows
                 /\ configCache' = configCache
            ELSE \A i \in DOMAIN configWrite'.updates :
                    LET u  == configWrite'.updates[i]
                        id == <<u.category, u.key, configWrite'.environment>>
                    IN  (\A j \in DOMAIN configWrite'.updates :
                            j > i => configWrite'.updates[j].key # u.key)
                          => configRows'[id].value = stringValue(u.value, u.type)
       ]_vars

\* the second upsert of a batch failed while the cache held an entry of a
\* category of the batch
C13_Witness ==
    /\ configWrite.pc = "done" /\ configWrite.op = "updateMultipleConfigs"
    /\ configWrite.error /\ configWrite.failAt = 2
    /\ \E i \in DOMAIN configWrite.updates :
          configCache[configCacheKey(configWrite.updates[i].category,
                                     configWrite.environment)] # NoEntry

\* the hard-coded defaults, those of the category when one is given
DefaultsOf(category) ==
    [k \in { d \in DOMAIN defaults :
               category = NoCategory \/ defaults[d].category = category } |-> defaults[k]]

\* C14: a getSystemConfig whose read of the store fails returns the
\* defaults (those of its category when one is given) and leaves the cache
\* as it is.
C14_DefaultsOnReadFailure ==
    [][(configCall.pc = "query" /\ configCall'.pc = "idle") =>
          /\ configReturned'.pc = "done" /\ configReturned'.readFailed
          /\ configReturned'.configs = DefaultsOf(configCall.category)
          /\ configCache' = configCache
       ]_vars

\* after a failed read of a category the next call for it has gone to the
\* store again
C14_Witness ==
    /\ ConfigAnswered /\ configReturned.readFailed
    /\ configReturned.category # NoCategory
    /\ configCall.pc = "query"
    /\ configCall.category = configReturned.category
    /\ configCall.environment = configReturned.environment

----------------------------------------------------------------------------
(* The claims about the rate limiter.                                       *)

\* the calls of the history that went through the external store under the
\* key and configuration of call i, were allowed, and fall in the window of
\* length windowMs that starts with call i
AllowedInWindow(i) ==
    { j \in 1..Len(history) :
        /\ history[j].path = "redis" /\ history[j].allowed
        /\ history[j].key = history[i].key
        /\ history[j].maxRequests = history[i].maxRequests
        /\ history[j].windowMs = history[i].windowMs
        /\ history[j].t >= history[i].t
        /\ history[j].t < history[i].t + history[i].windowMs }

\* C9: with the external store available and rate limiting enabled, in every
\* window of length windowMs at most maxRequests of the requests made under
\* one key are allowed.
C9_AtMostMaxRequestsPerWindow ==
    \A i \in 1..Len(history) :
        (redis = "client" /\ history[i].path = "redis" /\ history[i].allowed)
          => Cardinality(AllowedInWindow(i)) <= history[i].maxRequests

Done == last.pc = "done"

\* the middleware answers what the result says
Answers == last.via = "middleware" => last.response = respond(last.result)

\* C10 as stated: when reading the configuration or the external store fails,
\* the check returns allowed=true and the middleware calls next(); a failed
\* write of the violation log does not change the decision.
C10_AllFailuresFailOpen ==
    Done =>
      /\ (~last.readOk \/ last.path = "failed")
           => (last.result.allowed /\ last.response # "429")
      /\ (last.path \in {"redis", "memory"})
           => last.result = limitResult(last.currentCount, last.config)

\* C10 amended: a failure of the external store is answered with
\* allowed=true and next(); when the configuration cannot be read the check
\* is made under the default configuration overridden by the custom one and
\* its decision stands; a failed write of the violation log does not change
\* the decision.
C10_StoreFailureFailsOpen ==
    Done =>
      /\ last.path = "failed" => (last.result.allowed /\ last.response # "429")
      /\ ~last.readOk => last.config = merge(defaultConfig, last.customConfig)
      /\ (last.path \in {"redis", "memory"})
           => last.result = limitResult(last.currentCount, last.config)
      /\ Answers

\* the external store fails in the middleware for a key that already holds more
\* requests than the budget
C10_Witness ==
    /\ Done /\ last.via = "middleware"
    /\ last.path = "failed" /\ last.response = "next"
    /\ \E k \in RateKeys : Cardinality(zsets[k]) > last.config.maxRequests

----------------------------------------------------------------------------
(* The specification and the claims of email delivery *)

InitMail ==
    FlagsIdle /\ EvalInit /\ RateIdle /\ ConfigIdleState /\ BookIdleState /\ MailStart

SpecMail == InitMail /\ [][NextMail]_vars

\* C15: a message sent by one sendEmail call whose provider never accepts it
\* is handed to the provider at most 1 + 3 times.
C15_AtMostFourAttempts ==
    \A m \in Messages :
        (made[m] = <<"sendEmail">> /\ delivered[m] = 0) => handed[m] <= 1 + RetryLimit

FailoverAnswered == mailReturned.pc # "idle" /\ mailReturned.kind = "failover"

\* C16: sendEmailWithFailover tries the providers registered at the call in
\* registration order, goes on only after a failure, returns the first
\* success, and returns 'All email providers failed' exactly when each of
\* them failed.
C16_FailoverInOrder ==
    FailoverAnswered =>
      LET r == mailReturned
          n == Len(r.tried)
      IN  /\ n >= 1 /\ n <= Len(r.registered)
          /\ \A i \in 1..n : r.tried[i] = r.registered[i]
          /\ \A i \in 1..(n - 1) : ~r.outcomes[i]
          /\ r.result.success => (r.outcomes[n] /\ r.result.provider = r.tried[n])
          /\ ~r.result.success => r.result = AllFailed
          /\ (r.result = AllFailed)
                <=> (n = Len(r.registered) /\ \A i \in 1..n : ~r.outcomes[i])

\* the second provider succeeded after the first one had failed
C16_Witness ==
    /\ FailoverAnswered
    /\ mailReturned.result.success
    /\ Len(mailReturned.tried) = 2 /\ ~mailReturned.outcomes[1]

\* C29: after sendEmailWithFailover, the only call made for a message, has
\* returned a success, the message was accepted by a provider exactly once
\* and the retry queue holds no entry of the message for a provider that
\* failed before the one that succeeded.
C29_FailoverDeliversOnce ==
    \A m \in Messages :
        (/\ FailoverAnswered
         /\ mailReturned.message = m
         /\ mailReturned.result.success
         /\ made[m] = <<"failover">>)
            => /\ delivered[m] = 1
               /\ \A i \in DOMAIN retryQueue :
                     retryQueue[i].message = m
                         => \A j \in 1..(Len(mailReturned.tried) - 1) :
                               retryQueue[i].provider # mailReturned.tried[j]

\* C30: the step of a sendEmail activation that logs the result of its
\* attempt leaves the row that the activation created with the status of
\* that attempt, and a row is pending only while its activation has not
\* logged its result.
C30_OwnRowOwnStatus ==
    /\ [][ \A a \in Activations :
              (mailCalls[a].pc = "pending" /\ mailCalls'[a].pc = "logged")
                  => emailDeliveryLog'[mailCalls[a].row].status
                        = (IF mailCalls'[a].result.success THEN "sent" ELSE "failed") ]_vars
    /\ [](\A i \in DOMAIN emailDeliveryLog :
              emailDeliveryLog[i].status = "pending"
                  => \E a \in Activations :
                        mailCalls[a].pc = "pending" /\ mailCalls[a].row = i)

----------------------------------------------------------------------------
(* The retry timer left to run: the callers make their calls before the     *)
(* timer fires first, a provider answers before the timer fires again, and  *)
(* every activation and the timer take their steps.                         *)

\* a caller's call of sendEmail before the first firing of the timer
sendEmailAtStart(s, message, provider) ==
    mailNow = 0 /\ sendEmail(s, message, provider)

\* a caller's call of sendEmailWithFailover before the first firing of the timer
sendEmailWithFailoverAtStart(s, message) ==
    mailNow = 0 /\ sendEmailWithFailover(s, message)

\* thirty seconds pass while no activation of sendEmail is in flight
MailTickQuiet ==
    (\A a \in Activations : mailCalls[a].pc = "idle") /\ MailTick

\* provider.send settles, with either outcome
sendSettles == \E a \in Activations, success \in BOOLEAN : sendEmailSend(a, success)

\* the activation goes on after its awaits
sendEmailReturns == \E a \in Activations : sendEmailFinish(a)

NextMailLive ==
    \/ \E s \in MailSlots, m \in Messages, p \in ProviderInputs : sendEmailAtStart(s, m, p)
    \/ \E s \in MailSlots, m \in Messages : sendEmailWithFailoverAtStart(s, m)
    \/ sendSettles
    \/ sendEmailReturns
    \/ retryProcessor
    \/ MailTickQuiet

SpecMailLive ==
    /\ InitMail
    /\ [][NextMailLive]_vars
    /\ WF_vars(sendSettles)
    /\ WF_vars(sendEmailReturns)
    /\ WF_vars(retryProcessor)
    /\ WF_vars(MailTickQuiet)

\* the retry queue holds no entry of the message
NoRetryOf(m) == \A i \in DOMAIN retryQueue : retryQueue[i].message # m

----------------------------------------------------------------------------
(* The specification and the claims of the bookings and the QR codes *)

InitBook ==
    FlagsIdle /\ EvalInit /\ RateIdle /\ ConfigIdleState /\ MailIdleState /\ BookIdleState

SpecBook == InitBook /\ [][NextBook]_vars

\* what verify-qr answered last to a request whose code it parsed and whose
\* timestamp it checked
Validated == bookResponse.route = "verify-qr" /\ "valid" \in DOMAIN bookResponse.info

\* C17: validateQRCodeTimestamp with the default maximum age accepts a
\* timestamp exactly when the time of the check minus the timestamp is at
\* most 24 hours (a timestamp that is no number is rejected); verify-qr
\* answers 400 'QR code has expired' to a request whose code it rejects, and
\* the step that rejects it asks no booking of the table and leaves the table
\* and the notifications as they were.
C17_QRValidFor24Hours ==
    [][ (bookResponse' # bookResponse /\ Validated')
          => LET info == bookResponse'.info
                 age == info.dateNow - info.timestamp.num
             IN  /\ info.valid <=> (~isNaN(info.timestamp) /\ age <= 24 * Hour)
                 /\ ~info.valid =>
                       /\ bookResponse'.status = 400
                       /\ bookResponse'.error = "QR code has expired"
                       /\ ~info.read
                       /\ bookings' = bookings
                       /\ notifications' = notifications
                       /\ verify' = verify
                 /\ (bookResponse'.status = 400
                        /\ bookResponse'.error = "QR code has expired") => ~info.valid ]_vars

\* a code of exactly 24 hours of age was accepted
C17_WitnessAccepted ==
    /\ Validated
    /\ bookResponse.info.valid
    /\ ~isNaN(bookResponse.info.timestamp)
    /\ bookResponse.info.dateNow - bookResponse.info.timestamp.num = 24 * Hour
    /\ Len(bookings) > 0

\* a code of 24 hours and one millisecond was rejected while a booking exists
C17_Witness ==
    /\ Validated
    /\ ~bookResponse.info.valid
    /\ ~isNaN(bookResponse.info.timestamp)
    /\ bookResponse.info.dateNow - bookResponse.info.timestamp.num = 24 * Hour + 1
    /\ Len(bookings) > 0

\* two bookings hold the same space at some instant
Overlapping(a, b) ==
    /\ a.parkingSpaceId = b.parkingSpaceId
    /\ a.startTime < b.endTime
    /\ b.startTime < a.endTime

NotOver(booking) == booking.status \in {"PENDING", "CONFIRMED", "ACTIVE"}

\* C18: at every moment, no two bookings of the same parking space whose
\* status is PENDING, CONFIRMED or ACTIVE have overlapping time ranges.
C18_NoOverlappingBookings ==
    \A i, j \in DOMAIN bookings :
        (i < j /\ NotOver(bookings[i]) /\ NotOver(bookings[j]))
            => ~Overlapping(bookings[i], bookings[j])

StatusRank(status) ==
    CASE status = "PENDING" -> 1
      [] status = "CONFIRMED" -> 2
      [] status = "ACTIVE" -> 3
      [] OTHER -> 4

\* a change from `old` to `new` follows PENDING, CONFIRMED, ACTIVE, COMPLETED
\* forward, or cancels a booking that is neither completed nor cancelled
MovesForward(old, new) ==
    /\ old \notin {"COMPLETED", "CANCELLED"}
    /\ (new = "CANCELLED" \/ StatusRank(new) > StatusRank(old))

\* C19: every step that changes the status of a booking moves it forward
\* along PENDING, CONFIRMED, ACTIVE, COMPLETED or to CANCELLED, and the status
\* of a COMPLETED or CANCELLED booking never changes.
C19_StatusOnlyForward ==
    [][ \A i \in DOMAIN bookings :
            bookings'[i].status # bookings[i].status
                => MovesForward(bookings[i].status, bookings'[i].status) ]_vars

\* POST /api/bookings answered last, to a request that reached the check of
\* its range
RangeChecked == bookResponse.route = "POST" /\ "existing" \in DOMAIN bookResponse.info

\* C20: a request with start >= end is answered 400 and creates nothing; a
\* request with start < end is answered 409 exactly when its range
\* intersects the range of a PENDING, CONFIRMED or ACTIVE booking of the
\* space that exists when the handler decides, and is otherwise answered 200
\* with the booking created.
C20_ConflictExactlyOnIntersection ==
    RangeChecked =>
        LET info == bookResponse.info
            intersects ==
                \E other \in info.existing :
                    info.startTime < other.endTime /\ info.endTime > other.startTime
        IN  /\ info.startTime >= info.endTime
                  => (bookResponse.status = 400 /\ info.created = "<none>")
            /\ info.startTime < info.endTime
                  => /\ (bookResponse.status = 409) <=> intersects
                     /\ (bookResponse.status = 409) => info.created = "<none>"
                     /\ (bookResponse.status # 409)
                           => (bookResponse.status = 200 /\ info.created # "<none>")


\* the statuses that the rules of the route allow a caller: the owner of the
\* space, the user of the booking, an administrator
AllowedFor(booking, session) ==
    (IF booking.ownerId = session.id THEN {"CONFIRMED", "ACTIVE", "COMPLETED"} ELSE {})
        \cup (IF booking.userId = session.id THEN {"CANCELLED"} ELSE {})
        \cup (IF session.role \in {"ADMIN", "SUPER_ADMIN"} THEN BookingStatuses ELSE {})

C28_StoredCodeNamesItsBooking ==
    \A i \in DOMAIN bookings :
        LET parsed == parseQRCode(bookings[i].qrCode)
        IN  /\ "null" \notin DOMAIN parsed
            /\ textOf(parsed.id) = bookings[i].id


----------------------------------------------------------------------------
(* The specification and the claim of the reviews *)

\* the tables after renter booked s1 twice and the owner confirmed, started
\* and completed the first booking
InitReview ==
    /\ FlagsIdle /\ EvalInit /\ RateIdle /\ ConfigIdleState /\ MailIdleState
    /\ bookings =
          << [id |-> "b1", userId |-> "renter", parkingSpaceId |-> "s1",
              startTime |-> 8 * Hour, endTime |-> 9 * Hour, status |-> "COMPLETED",
              qrCode |-> << Text("BOOKING"), Digits(7 * Hour), Text("<random>") >>],
             [id |-> "b2", userId |-> "renter", parkingSpaceId |-> "s1",
              startTime |-> 11 * Hour, endTime |-> 12 * Hour, status |-> "PENDING",
              qrCode |-> << Text("BOOKING"), Digits(7 * Hour), Text("<random>") >>] >>
    /\ notifications = { <<"owner", "New Booking Request">>,
                         <<"renter", "Booking Confirmed">>,
                         <<"renter", "Booking Completed">> }
    /\ bookNow = 10 * Hour + 30 * Minute
    /\ posts = [s \in PostSlots |-> BookIdle]
    /\ verify = BookIdle
    /\ bookResponse = NoResponse
    /\ nBookOps = 0
    /\ reviews = << >>
    /\ reviewPosts = [s \in PostSlots |-> BookIdle]

SpecReview == InitReview /\ [][NextReview]_vars

\* C26: at every moment no user has two reviews of one booking, and every
\* review was created while its booking was COMPLETED.
C26_OneReviewPerBookingAndUser ==
    /\ \A i, j \in DOMAIN reviews :
          (i # j /\ reviews[i].bookingId = reviews[j].bookingId)
              => reviews[i].reviewerId # reviews[j].reviewerId
    /\ \A i \in DOMAIN reviews : reviews[i].madeWhen = "COMPLETED"

============================================================================
